---- MODULE Spec2Model ----
(***************************************************************************)
(* A model of the Medimesh/Meditree backend (backend-js): the bubble hook  *)
(* of netx.ts, the string batch writer of netx.ts, and the tree cache and  *)
(* file endpoints of server.ts.                                            *)
(***************************************************************************)
EXTENDS Integers, Sequences, FiniteSets, TLC

(***************************************************************************)
(* Bounds of the model.                                                    *)
(***************************************************************************)
\* Number of nodes of the graph; node names are 1..NumNodes.
NumNodes == 3
\* A bubble whose header is longer than this is left in its channel.
MaxHops == 4
\* The longest string, in characters, written by BufferWriter.strings.
MaxStrLen == 2
\* The largest number of strings written in one batch.
MaxBatch == 2
\* The largest number of segments of a requested path.
MaxPathLen == 2
\* The largest size of a file, in bytes, and the largest number of a range.
MaxFileSize == 3
\* The largest number of stream-data messages of one remote stream.
MaxMsgs == 2
\* The largest length of the passcode a request has in its query string.
MaxQueryLen == 3
\* The last tick of the clock.
MaxClock == 2
\* The largest number of plugins.
MaxPlugins == 2
\* The greatest depth of rootDir, the directory findConfig starts in.
MaxDirDepth == 2
\* The largest number of changes of the disk while it is scanned.
MaxFsChanges == 1

Nodes == 1..NumNodes
\* The event ids a bubble is sent under.
Bubbles == {"ev"}

\* A Net is one connection: the end at node n of the link between n and p
\* is written <<n, p>>, and chan[<<n, p>>] holds what n has sent to p.
Ends == {e \in Nodes \X Nodes : e[1] # e[2]}

\* Every simple undirected graph over the nodes.
Graphs == SUBSET {l \in SUBSET Nodes : Cardinality(l) = 2}

VARIABLES
  links,      \* the links of the graph, each a set of two nodes
  chan,       \* chan[<<n, p>>]: messages sent by n to p, not yet read by p
  origin,     \* origin[b]: 0, or the node that originated bubble b
  targets,    \* targets[b]: the peers whose Net the origin called sendBubble on
  handled,    \* handled[n][b]: calls of n's handler for bubble b
  accepted,   \* accepted[n][b]: bubble messages of b that passed n's header test
  discarded,  \* discarded[n][b]: bubble messages of b that n's hook dropped
  echoed,     \* ends on which a hook has sent an accepted bubble
  failed,     \* bubbles for which a send has raised an error
  others      \* whether a message that is no bubble has been sent

bubbleVars == <<links, chan, origin, targets, handled, accepted, discarded,
                echoed, failed, others>>

VARIABLES
  backend,    \* the bytes of the BufferWriter's buffer up to its cursor
  cursor,     \* the BufferWriter's cursor
  batch       \* the strings the last call of strings wrote, in order

codecVars == <<backend, cursor, batch>>

VARIABLES
  localTree,      \* the local subtree the last rebuild event carried
  childLink,      \* childLink[c]: "none", "up", "removed" (the link was
                  \* removed while c's subtree was mounted), or "rejected"
                  \* (the connection was closed at the handshake)
  proof,          \* proof[c]: the proof c presented at its last handshake
  announced,      \* announced[c]: the directory child c announced last, or Null
  connected,      \* the children whose link is up, in the order they were added
  mergedTree,     \* the node's merged tree
  fullTreeCache,  \* the server's cache: [obj |-> info, json |-> its JSON text]
  response        \* the last HTTP response

treeVars == <<localTree, childLink, proof, announced, connected, mergedTree,
              fullTreeCache, response>>

VARIABLES
  fileType,         \* config.fileType
  preserveEmptyDir  \* whether the node is configured to preserve empty
                    \* directories

configVars == <<fileType, preserveEmptyDir>>

VARIABLES
  build,          \* the server serving the request: "server.ts" or "part_002"
  request,        \* the /file request pipeFile serves, or Null
  res,            \* its response
  pc,             \* where pipeFile is: "idle", "createReadStream" (awaiting
                  \* it), "piping", "done", or "rejected" (its promise was)
  stream,         \* the stream node.createReadStream gave, or Null
  linkUp,         \* whether the link to the owner of a remote file is up
  clientOpen,     \* whether the HTTP client's connection is open
  received,       \* the payloads of the stream-data messages received
  thrown          \* whether an exception left a listener or the handler

fileVars == <<build, request, res, pc, stream, linkUp, clientOpen, received,
              thrown>>

VARIABLES
  disk,           \* the configuration file there was at the start: Null
                  \* (there is none) or its object
  rootDir,        \* the rootDir findConfig is given: the names of a path
  configDir,      \* the directory of the configuration file of the start
  created,        \* the file findConfig has created, or Null
  search,         \* findFsEntryInTree: its dir and lastDir, and what it
                  \* has returned
  config,         \* the configuration findConfig returned, or Null
  findConfigThrew,  \* whether findConfig threw
  httpReq         \* the request the passcode middleware saw last, or Null

gateVars == <<disk, rootDir, configDir, created, search, config,
              findConfigThrew, httpReq>>

VARIABLES
  now,            \* the clock
  cacheFile,      \* the file at cachePath: Null, or its bytes and the time
                  \* it was last written
  remoteSize,     \* the size of the remote file the callers ask for
  call,           \* call[r]: where caller r's onNodeCreateReadStream is,
                  \* its options, and the bytes its stream has given
  exited          \* whether the process of the server has ended

cacheVars == <<now, cacheFile, remoteSize, call, exited>>

VARIABLES
  fsRoot,         \* what the filesystem holds at the root path
  scanOptions,    \* the ignore patterns, the patterns of the file types,
                  \* and ignoreEmptyDir
  walking,        \* the call of createFileTreeFrom: Null before it, then
                  \* the await it is at, the calls of walk that have not
                  \* returned, and the changes of the disk since the call
  scanned         \* the tree createFileTreeFrom gave, or Null

scanVars == <<fsRoot, scanOptions, walking, scanned>>

VARIABLES
  plugins,        \* the plugins of the server, in their order
  parentLink,     \* parentLink[u]: whether the node has a link to parent u
  sentToParent    \* sentToParent[u]: the messages the server has sent to u

notifyVars == <<plugins, parentLink, sentToParent>>

VARIABLES
  users,          \* the user storage: the users it holds
  addUserCalls,   \* the users storage.addUser was called with, in order
  authReq,        \* the request the auth middleware has seen, or Null
  registerReq     \* registerReq[r]: where the registration of r is

authVars == <<users, addUserCalls, authReq, registerReq>>

VARIABLES
  authBound,      \* whether a middleware is bound to AdminPluginType.Auth
  hostOptions,    \* the options the HostTree was constructed with
  diskFiles,      \* the paths of the files under the root of the server
  diskDirs,       \* the paths of the directories under the root
  tempFiles,      \* how many uploaded files are in tempDir
  served,         \* how many admin requests have come
  adminReq,       \* adminReq[c]: the last request that came as c, or
                  \* Null: where the router or its handler is, its answer
  scans,          \* the calls of rebuildFileTree since the start, in order:
                  \* the await each scan is at, the calls of walk that have
                  \* not returned, and the tree as filled so far
  hostFileTree,   \* HostTree.fileTree
  rebuildEvent    \* the tree of the last "rebuild" event

adminVars == <<authBound, hostOptions, diskFiles, diskDirs, tempFiles, served,
               adminReq, scans, hostFileTree, rebuildEvent>>

VARIABLES
  clientTree,     \* the root of the file tree the client has received
  delegate        \* what createDelegate gave for it, or Null

clientVars == <<clientTree, delegate>>

\* The parts of the plugins and of the client.
lateVars == <<authVars, adminVars, clientVars>>

moreVars == <<gateVars, cacheVars, scanVars, notifyVars, lateVars>>

\* Everything but lateVars.
earlyVars == <<bubbleVars, codecVars, treeVars, configVars, fileVars,
               gateVars, cacheVars, scanVars, notifyVars>>

vars == <<bubbleVars, codecVars, treeVars, configVars, fileVars, moreVars>>

(***************************************************************************)
(* netx.ts: sendBubble and addBubbleHook                                   *)
(***************************************************************************)
Neighbours(n) == {p \in Nodes : {n, p} \in links}

\* The id of a message: `[bubble]${id}` has prefixed = TRUE.
BubbleId(b) == [prefixed |-> TRUE, name |-> b]

\* id.startsWith("[bubble]")
StartsWithBubble(id) == id.prefixed

\* removePrefix(id, "[bubble]"): the id without its prefix.
removePrefix(id) == id.name

\* Net.send(id, data, header): the message as written to the connection.
Message(id, data, header) ==
  [type |-> "object", id |-> id, data |-> data, header |-> header]

\* The header sendBubble gives a new bubble.
SendBubbleHeaderEmpty(nodeId) == <<>>
SendBubbleHeader(nodeId) == <<nodeId>>

\* nodeIds.includes(nodeId)
IncludesNever(nodeIds, nodeId) == FALSE
IncludesLastOnly(nodeIds, nodeId) ==
  Len(nodeIds) > 0 /\ nodeIds[Len(nodeIds)] = nodeId
Includes(nodeIds, nodeId) == \E i \in 1..Len(nodeIds) : nodeIds[i] = nodeId

\* [...nodeIds, nodeId]
ForwardHeaderPrepend(nodeIds, nodeId) == <<nodeId>> \o nodeIds
ForwardHeader(nodeIds, nodeId) == Append(nodeIds, nodeId)

\* The hook's two early returns: the message is no bubble.
IsBubble(m) == m.type = "object" /\ StartsWithBubble(m.id)

\* The payload a bubble carries.
DataOf(b) == [event |-> b]

\* sendBubble(id, nodeId, data) called by node a on its Nets to the peers
\* in to. A send that raises an error leaves nothing on the connection.
sendBubble(b, a, to) ==
  /\ origin[b] = 0
  /\ to # {} /\ to \subseteq Neighbours(a)
  /\ origin' = [origin EXCEPT ![b] = a]
  /\ targets' = [targets EXCEPT ![b] = to]
  /\ \E ok \in SUBSET to :
       /\ chan' = [e \in Ends |->
                    IF e[1] = a /\ e[2] \in ok
                    THEN Append(chan[e],
                           Message(BubbleId(b), DataOf(b), SendBubbleHeader(a)))
                    ELSE chan[e]]
       /\ failed' = IF ok = to THEN failed ELSE failed \cup {b}
  /\ UNCHANGED <<links, handled, accepted, discarded, echoed, others>>
  /\ UNCHANGED <<codecVars, treeVars, configVars, fileVars, moreVars>>

\* A message that is no bubble, written by a to p: of another type, or an
\* object message whose id has no "[bubble]" prefix.
SendOther(a, p, type, prefixed) ==
  /\ ~others
  /\ p \in Neighbours(a)
  /\ type # "object" \/ ~prefixed
  /\ others' = TRUE
  /\ chan' = [chan EXCEPT ![<<a, p>>] =
                Append(@, [type |-> type,
                           id |-> [prefixed |-> prefixed, name |-> "ev"],
                           data |-> DataOf("ev"), header |-> <<>>])]
  /\ UNCHANGED <<links, origin, targets, handled, accepted, discarded,
                 echoed, failed>>
  /\ UNCHANGED <<codecVars, treeVars, configVars, fileVars, moreVars>>

\* The read hook addBubbleHook(n, handler) registered on n's Net to p, run on
\* the next message p has sent to n.
BubbleHook(n, p) ==
  /\ chan[<<p, n>>] # <<>>
  /\ LET m == Head(chan[<<p, n>>])
         b == removePrefix(m.id)
     IN /\ Len(m.header) <= MaxHops
        /\ IF ~IsBubble(m)
           THEN /\ chan' = [chan EXCEPT ![<<p, n>>] = Tail(@)]
                /\ UNCHANGED <<handled, accepted, discarded, echoed, failed>>
           ELSE IF Includes(m.header, n)
           THEN /\ chan' = [chan EXCEPT ![<<p, n>>] = Tail(@)]
                /\ discarded' = [discarded EXCEPT ![n][b] = @ + 1]
                /\ UNCHANGED <<handled, accepted, echoed, failed>>
           ELSE /\ accepted' = [accepted EXCEPT ![n][b] = @ + 1]
                /\ UNCHANGED discarded
                /\ \/ \* this.send(...) returns, then handler(...) runs
                      /\ chan' = [chan EXCEPT
                                    ![<<p, n>>] = Tail(@),
                                    ![<<n, p>>] = Append(@,
                                       Message(m.id, m.data,
                                               ForwardHeader(m.header, n)))]
                      /\ handled' = [handled EXCEPT ![n][b] = @ + 1]
                      /\ echoed' = echoed \cup {<<n, p>>}
                      /\ UNCHANGED failed
                   \/ \* this.send(...) raises: the hook is left at once
                      /\ chan' = [chan EXCEPT ![<<p, n>>] = Tail(@)]
                      /\ failed' = failed \cup {b}
                      /\ UNCHANGED <<handled, echoed>>
  /\ UNCHANGED <<links, origin, targets, others>>
  /\ UNCHANGED <<codecVars, treeVars, configVars, fileVars, moreVars>>

(***************************************************************************)
(* netx.ts: BufferWriter.strings                                           *)
(***************************************************************************)
\* Characters are code points: "a", and two characters whose UTF-8 encodings
\* take two bytes and start with the same byte.
Chars == {97, 232, 233}

\* Strings are sequences of characters.
RECURSIVE SeqsUpTo(_, _)
SeqsUpTo(S, n) ==
  IF n = 0 THEN {<<>>}
  ELSE LET shorter == SeqsUpTo(S, n - 1)
       IN shorter \cup {Append(q, x) : q \in shorter, x \in S}

Strings == SeqsUpTo(Chars, MaxStrLen)
Batches == SeqsUpTo(Strings, MaxBatch)

\* The UTF-8 encoding of one character (code points below 2048).
Utf8Char(c) ==
  IF c < 128 THEN <<c>> ELSE <<192 + (c \div 64), 128 + (c % 64)>>

RECURSIVE Utf8(_)
Utf8(str) == IF str = <<>> THEN <<>> ELSE Utf8Char(Head(str)) \o Utf8(Tail(str))

\* Buffer.byteLength(value, "utf8")
ByteLengthInChars(value) == Len(value)
ByteLength(value) == Len(Utf8(value))

\* backend.writeInt32BE(n), for 0 <= n < 2^31 (a total length is never
\* negative, and Node refuses a value out of range): four bytes, the most
\* significant first.
WriteInt32BE(n) ==
  <<(n \div 16777216) % 256, (n \div 65536) % 256, (n \div 256) % 256,
    n % 256>>

\* backend.write(value, offset, len, "utf8") writes the encoded characters
\* of value that fit, whole, into len bytes.
RECURSIVE BufferWrite(_, _)
BufferWrite(value, len) ==
  IF value = <<>> \/ Len(Utf8Char(Head(value))) > len THEN <<>>
  ELSE Utf8Char(Head(value))
         \o BufferWrite(Tail(value), len - Len(Utf8Char(Head(value))))

\* The total length strings() sums up over the values written.
RECURSIVE TotalLength(_)
TotalLength(values) ==
  IF values = <<>> THEN 0
  ELSE ByteLength(Head(values)) + TotalLength(Tail(values))

\* The loop of strings() that writes each value with its own len.
RECURSIVE WriteValues(_)
WriteValues(values) ==
  IF values = <<>> THEN <<>>
  ELSE BufferWrite(Head(values), ByteLength(Head(values)))
         \o WriteValues(Tail(values))

\* The bytes one call of strings() writes at the cursor for the values its
\* callback passes to write().
StringsBytes(values) == WriteInt32BE(TotalLength(values)) \o WriteValues(values)

\* BufferWriter.strings(writing) on a new writer.
strings(values) ==
  /\ cursor = 0
  /\ backend' = backend \o StringsBytes(values)
  /\ cursor' = cursor + 4 + TotalLength(values)
  /\ batch' = values
  /\ UNCHANGED <<bubbleVars, treeVars, configVars, fileVars, moreVars>>

\* A new BufferWriter.
NewWriter ==
  /\ cursor # 0
  /\ backend' = <<>> /\ cursor' = 0 /\ batch' = <<>>
  /\ UNCHANGED <<bubbleVars, treeVars, configVars, fileVars, moreVars>>

CodecIdle == backend = <<>> /\ cursor = 0 /\ batch = <<>>

\* A call of strings on a new writer, with any batch.
WriteBatch == cursor = 0 /\ \E values \in Batches : strings(values)

CodecNext ==
  \/ WriteBatch
  \/ NewWriter

BubbleInit ==
  /\ links \in Graphs
  /\ chan = [e \in Ends |-> <<>>]
  /\ origin = [b \in Bubbles |-> 0]
  /\ targets = [b \in Bubbles |-> {}]
  /\ handled = [n \in Nodes |-> [b \in Bubbles |-> 0]]
  /\ accepted = [n \in Nodes |-> [b \in Bubbles |-> 0]]
  /\ discarded = [n \in Nodes |-> [b \in Bubbles |-> 0]]
  /\ echoed = {}
  /\ failed = {}
  /\ others = FALSE

\* The bubble part at rest: a graph without links.
BubbleIdle == BubbleInit /\ links = {}

BubbleNext ==
  \/ \E b \in Bubbles, a \in Nodes, to \in SUBSET Nodes : sendBubble(b, a, to)
  \/ \E a \in Nodes, p \in Nodes, type \in {"object", "stream"},
        prefixed \in BOOLEAN : SendOther(a, p, type, prefixed)
  \/ \E n \in Nodes : \E p \in Nodes \ {n} : BubbleHook(n, p)

(***************************************************************************)
(* server.ts: the node's trees, the tree cache, and the /list and /file    *)
(* endpoints                                                               *)
(***************************************************************************)
Null == [null |-> TRUE]

\* config.name
ConfigName == "P"

\* The names of the nodes that may connect as children.
Children == {"C", "D"}

\* A file entry carries "*type" and size; a directory is an object whose
\* properties are its entries: it maps names to entries, and it keeps the
\* names in the order the properties were added (no name of the model is an
\* array index, which an object lists first).
File(type, size) == [file |-> TRUE, type |-> type, size |-> size]
Dir(order, entries) == [file |-> FALSE, order |-> order, entries |-> entries]
EmptyDir == Dir(<<>>, <<>>)

\* The local subtrees a scan may produce: among them one with a directory
\* named like a child, added after the file "a.txt", and one with a file
\* named like a child.
LocalTrees ==
  { EmptyDir,
    Dir(<<"a.txt", "C">>,
        ("a.txt" :> File("text/plain", 11))
        @@ ("C" :> Dir(<<"own.txt">>, "own.txt" :> File("text/plain", 3)))),
    Dir(<<"D">>, "D" :> File("video/mp4", 7)) }

\* The directories a child may announce.
ChildTrees ==
  { EmptyDir,
    Dir(<<"video.mp4">>, "video.mp4" :> File("video/mp4", 1000)),
    Dir(<<"doc.pdf">>, "doc.pdf" :> File("application/pdf", 5)),
    Dir(<<"video.mp4", "sub">>,
        ("video.mp4" :> File("video/mp4", 1000))
        @@ ("sub" :> Dir(<<"clip.mp4", "doc.pdf">>,
                         ("clip.mp4" :> File("video/mp4", 20))
                         @@ ("doc.pdf" :> File("application/pdf", 5))))) }

\* config.fileType as startServer uses it: from a path pattern to the type
\* the scan gives a matching file.
ConfigFileType ==
  ("**/*.mp4" :> "video/mp4") @@ ("**/*.txt" :> "text/plain")

\* defaultConfig.fileType of config.ts (two of its entries): from a media
\* type to the FileType it belongs to.
DefaultFileType ==
  ("video/mp4" :> "video") @@ ("text/plain" :> "text")

\* The values config.fileType may have.
FileTypeMaps == {ConfigFileType, DefaultFileType}

\* Array.from(Object.values(config.fileType))
fileTypes == {fileType[k] : k \in DOMAIN fileType}

\* node.subNodeFilter
subNodeFilterAll(file) == TRUE
subNodeFilter(file) == file.type \in fileTypes

\* The sub-node filter applied to every file of a child's directory.
RECURSIVE FilterTree(_)
FilterTree(dir) ==
  LET kept == {n \in DOMAIN dir.entries :
                 ~dir.entries[n].file \/ subNodeFilter(dir.entries[n])}
  IN Dir(SelectSeq(dir.order, LAMBDA n : n \in kept),
         [n \in kept |-> IF dir.entries[n].file THEN dir.entries[n]
                         ELSE FilterTree(dir.entries[n])])

\* The children whose announced directory is mounted: a child announcing an
\* empty directory has no mount point, unless the node is configured to
\* preserve empty directories.
Mounted(ann) ==
  {c \in Children :
     ann[c] # Null /\ (preserveEmptyDir \/ DOMAIN ann[c].entries # {})}

\* The merge: the local subtree, and for each connected child in turn its
\* filtered directory as the entry of the child's name, in place of any entry
\* of that name (an entry that is replaced keeps its place among the names).
MergeLocalWins(local, ann, conn) ==
  Dir(local.order
        \o SelectSeq(conn, LAMBDA c : /\ c \in Mounted(ann)
                                      /\ c \notin DOMAIN local.entries),
      [n \in DOMAIN local.entries \cup Mounted(ann) |->
         IF n \in DOMAIN local.entries THEN local.entries[n]
         ELSE FilterTree(ann[n])])
Merge(local, ann, conn) ==
  Dir(local.order
        \o SelectSeq(conn, LAMBDA c : /\ c \in Mounted(ann)
                                      /\ c \notin DOMAIN local.entries),
      [n \in DOMAIN local.entries \cup Mounted(ann) |->
         IF n \in Mounted(ann) THEN FilterTree(ann[n]) ELSE local.entries[n]])

\* node.resolveFile(pathParts): the entry the path leads to, or Null.
RECURSIVE Walk(_, _)
Walk(entry, parts) ==
  IF parts = <<>> THEN entry
  ELSE IF entry.file \/ Head(parts) \notin DOMAIN entry.entries THEN Null
  ELSE Walk(entry.entries[Head(parts)], Tail(parts))

resolveFile(tree, parts) ==
  IF parts = <<>> \/ Walk(tree, parts) = Null THEN Null
  ELSE [inner |-> Walk(tree, parts)]

\* JSON.stringify(info, null, 1), as the sequence of its tokens: the members
\* of an object in the order of its properties. The info of server.ts has
\* the properties name and files, the one of part_002 name and root.
RECURSIVE StringifyEntry(_)
RECURSIVE StringifyFrom(_, _)
StringifyFrom(dir, i) ==
  IF i > Len(dir.order) THEN <<>>
  ELSE <<dir.order[i]>> \o StringifyEntry(dir.entries[dir.order[i]])
         \o StringifyFrom(dir, i + 1)
StringifyEntry(e) ==
  IF e.file THEN <<"{", "*type", e.type, "size", ToString(e.size), "}">>
  ELSE <<"{">> \o StringifyFrom(e, 1) \o <<"}">>

JSONstringify(info) ==
  <<"{", "name", info.name>>
    \o (IF "files" \in DOMAIN info
        THEN <<"files">> \o StringifyEntry(info.files)
        ELSE <<"root">> \o StringifyEntry(info.root))
    \o <<"}">>

\* part_002: initialFileTree, and the cache made of it.
initialFileTree == [name |-> ConfigName, root |-> EmptyDir]
initialCache(b) ==
  IF b = "server.ts"
  THEN [obj |-> [name |-> ConfigName, files |-> EmptyDir],
        json |-> JSONstringify([name |-> ConfigName, files |-> EmptyDir])]
  ELSE [obj |-> initialFileTree, json |-> JSONstringify(initialFileTree)]

\* updateTreeJsonCache(entireTree): the value assigned to fullTreeCache.
updateTreeJsonCacheStaleText(entireTree) ==
  [obj |-> [name |-> ConfigName, files |-> entireTree],
   json |-> fullTreeCache.json]
updateTreeJsonCache(entireTree) ==
  LET info == [name |-> ConfigName, files |-> entireTree]
  IN [obj |-> info, json |-> JSONstringify(info)]

\* The node emits "file-tree-update" with its new merged tree, and the
\* server's listener replaces the cache.
EmitFileTreeUpdate(tree) ==
  /\ mergedTree' = tree
  /\ fullTreeCache' = updateTreeJsonCache(tree)

\* The "rebuild" listener: node.updateFileTreeFromLocal(config.name, tree).
RebuildListener(tree) ==
  /\ localTree' = tree
  /\ EmitFileTreeUpdate(Merge(tree, announced, connected))
  /\ UNCHANGED <<childLink, proof, announced, connected, response>>
  /\ UNCHANGED <<bubbleVars, codecVars, configVars, fileVars, moreVars>>

\* A child's link is added to the node: its handshake was accepted.
AddChild(c) ==
  /\ childLink[c] # "up"
  /\ childLink' = [childLink EXCEPT ![c] = "up"]
  /\ connected' = Append(connected, c)
  /\ EmitFileTreeUpdate(Merge(localTree, announced, connected'))
  /\ UNCHANGED <<localTree, announced, response>>
  /\ UNCHANGED <<bubbleVars, codecVars, configVars, fileVars, moreVars>>

\* The connection of a peer whose handshake is rejected is closed: no link is
\* added.
CloseConnection(c) ==
  /\ childLink' = [childLink EXCEPT ![c] = "rejected"]
  /\ UNCHANGED <<localTree, announced, connected, mergedTree, fullTreeCache,
                 response>>
  /\ UNCHANGED <<bubbleVars, codecVars, configVars, fileVars, moreVars>>

\* The verification of the proof a peer presents.
VerifyProofAlways(presented) == TRUE
VerifyProof(presented) == presented = "valid"

\* setupAsParent: a peer named c connects and presents its proof.
Handshake(c, presented) ==
  /\ childLink[c] # "up"
  /\ proof' = [proof EXCEPT ![c] = presented]
  /\ IF VerifyProof(presented) THEN AddChild(c) ELSE CloseConnection(c)

\* Child c announces its directory over its link.
Announce(c, tree) ==
  /\ childLink[c] = "up"
  /\ announced' = [announced EXCEPT ![c] = tree]
  /\ EmitFileTreeUpdate(Merge(localTree, announced', connected))
  /\ UNCHANGED <<localTree, childLink, proof, connected, response>>
  /\ UNCHANGED <<bubbleVars, codecVars, configVars, fileVars, moreVars>>

\* Child c's link is closed: its contribution is dropped and the tree merged
\* again.
RemoveChild(c) ==
  /\ childLink[c] = "up"
  /\ childLink' = [childLink EXCEPT
                     ![c] = IF c \in Mounted(announced) THEN "removed"
                            ELSE "none"]
  /\ announced' = [announced EXCEPT ![c] = Null]
  /\ connected' = SelectSeq(connected, LAMBDA d : d # c)
  /\ EmitFileTreeUpdate(Merge(localTree, announced', connected'))
  /\ UNCHANGED <<localTree, proof, response>>
  /\ UNCHANGED <<bubbleVars, codecVars, configVars, fileVars, moreVars>>

\* GET /list: the body sent, res.send(fullTreeCache.json).
ListBodyAtStart(cache) ==
  JSONstringify([name |-> ConfigName, files |-> EmptyDir])
ListBody(cache) == cache.json

\* GET /list: the response of the route's handler.
ListResponse ==
  [kind |-> "list", status |-> "200", body |-> ListBody(fullTreeCache)]

\* GET /list
GetList ==
  /\ response' = ListResponse
  /\ UNCHANGED <<localTree, childLink, proof, announced, connected,
                 mergedTree, fullTreeCache>>
  /\ UNCHANGED <<bubbleVars, codecVars, configVars, fileVars, moreVars>>

\* GET /file: what the handler does with the result of node.resolveFile.
GetFileOutcomeNoNullCheck(resolved) ==
  IF resolved = Null THEN "500"
  ELSE IF ~resolved.inner.file THEN "404" ELSE "pipeFile"
GetFileOutcomeNoTypeCheck(resolved) ==
  IF resolved = Null THEN "404" ELSE "pipeFile"
GetFileOutcome(resolved) ==
  IF resolved = Null THEN "404"
  ELSE IF ~resolved.inner.file THEN "404" ELSE "pipeFile"

\* The paths requests ask for: of a child's name (which may also be the name
\* of a local directory) and of a file a child announces.
RequestNames == {"C", "video.mp4"}
Paths == SeqsUpTo(RequestNames, MaxPathLen) \ {<<>>}

\* GET /file: the response of the route's handler.
FileResponse(parts) ==
  [kind |-> "file", path |-> parts,
   status |-> GetFileOutcome(resolveFile(mergedTree, parts))]

GetFile(parts) ==
  /\ response' = FileResponse(parts)
  /\ UNCHANGED <<localTree, childLink, proof, announced, connected,
                 mergedTree, fullTreeCache>>
  /\ UNCHANGED <<bubbleVars, codecVars, configVars, fileVars, moreVars>>

TreeInit ==
  /\ localTree = EmptyDir
  /\ childLink = [c \in Children |-> "none"]
  /\ proof = [c \in Children |-> "none"]
  /\ fileType \in FileTypeMaps
  /\ preserveEmptyDir \in BOOLEAN
  /\ announced = [c \in Children |-> Null]
  /\ connected = <<>>
  /\ mergedTree = EmptyDir
  /\ fullTreeCache = initialCache(build)
  /\ response = Null

TreeNext ==
  \/ \E tree \in LocalTrees : RebuildListener(tree)
  \/ \E c \in Children, presented \in {"valid", "invalid"} :
       Handshake(c, presented)
  \/ \E c \in Children, tree \in ChildTrees : Announce(c, tree)
  \/ \E c \in Children : RemoveChild(c)
  \/ GetList
  \/ \E parts \in Paths : GetFile(parts)

(***************************************************************************)
(* server.ts: pipeFile and resolveRange                                    *)
(***************************************************************************)
\* The two servers of the repository.
Builds == {"server.ts", "part_002"}

\* A number that may be undefined.
Undefined == [undefined |-> TRUE]
Some(n) == [v |-> n]

\* Header values are sequences of characters; the empty sequence is a header
\* that is absent (or empty: both are falsy).
DigitChars == <<"0", "1", "2", "3", "4", "5", "6", "7", "8", "9">>
IsDigit(ch) == \E i \in 1..10 : DigitChars[i] = ch
DigitValue(ch) == (CHOOSE i \in 1..10 : DigitChars[i] = ch) - 1
BytesUnit == <<"b", "y", "t", "e", "s", "=">>
ItemsUnit == <<"i", "t", "e", "m", "s", "=">>

\* str.startsWith(prefix)
StartsWith(str, prefix) ==
  Len(str) >= Len(prefix) /\ SubSeq(str, 1, Len(prefix)) = prefix

\* removePrefix(origin, prefix) of server.ts
removePrefixOf(str, prefix) ==
  IF StartsWith(str, prefix)
  THEN SubSeq(str, Len(prefix) + 1, Len(str)) ELSE str

\* str.split(sep)
RECURSIVE Split(_, _)
Split(str, sep) ==
  IF \A i \in 1..Len(str) : str[i] # sep THEN <<str>>
  ELSE LET i == CHOOSE j \in 1..Len(str) :
                  str[j] = sep /\ \A k \in 1..(j - 1) : str[k] # sep
       IN <<SubSeq(str, 1, i - 1)>>
            \o Split(SubSeq(str, i + 1, Len(str)), sep)

\* str.trim()
RECURSIVE Trim(_)
Trim(str) ==
  IF str = <<>> THEN str
  ELSE IF Head(str) = " " THEN Trim(Tail(str))
  ELSE IF str[Len(str)] = " " THEN Trim(SubSeq(str, 1, Len(str) - 1))
  ELSE str

\* parseInt(str), for a str that begins with a digit: the number its leading
\* digits write.
RECURSIVE ParseDigits(_, _)
ParseDigits(str, acc) ==
  IF str = <<>> \/ ~IsDigit(Head(str)) THEN acc
  ELSE ParseDigits(Tail(str), acc * 10 + DigitValue(Head(str)))
ParseInt(str) == ParseDigits(str, 0)

\* resolveRange(range)
resolveRange(range) ==
  IF range = <<>> THEN [start |-> Undefined, end |-> Undefined]
  ELSE IF ~StartsWith(range, BytesUnit)
  THEN [start |-> Undefined, end |-> Undefined]
  ELSE LET parts == Split(removePrefixOf(range, BytesUnit), "-")
       IN IF Len(parts) # 2 THEN [start |-> Undefined, end |-> Undefined]
          ELSE [start |-> IF Trim(parts[1]) # <<>>
                          THEN Some(ParseInt(Trim(parts[1]))) ELSE Undefined,
                end |-> IF Trim(parts[2]) # <<>>
                        THEN Some(ParseInt(Trim(parts[2]))) ELSE Undefined]

\* x ??= d
Coalesce(x, d) == IF x = Undefined THEN Some(d) ELSE x

\* const retrievedLength = (end + 1) - start
RetrievedLengthExclusive(start, end) == end - start
RetrievedLength(start, end) == (end + 1) - start

\* res.statusCode, as each server sets it after start and end got their
\* defaults.
StatusCode(b, range, start, end) ==
  IF b = "server.ts"
  THEN (IF start # Undefined \/ end # Undefined THEN 206 ELSE 200)
  ELSE (IF range # <<>> THEN 206 ELSE 200)

\* The ranges requests ask for, and the Range header of each. Files have at
\* least one byte, as the scan gives every file its size and what
\* createReadStream does with {start: 0, end: -1} is not known.
RECURSIVE NumberToString(_)
NumberToString(n) ==
  IF n < 10 THEN <<DigitChars[n + 1]>>
  ELSE NumberToString(n \div 10) \o <<DigitChars[(n % 10) + 1]>>

RangeSpecs ==
  [kind : {"none"}, a : {0}, b : {0}]
    \cup [kind : {"closed"}, a : 0..MaxFileSize, b : 0..MaxFileSize]
    \cup [kind : {"from"}, a : 0..MaxFileSize, b : {0}]
    \cup [kind : {"suffix"}, a : {0}, b : 0..MaxFileSize]
    \cup [kind : {"spaced", "items", "three"}, a : {0}, b : {1}]

HeaderOf(spec) ==
  CASE spec.kind = "none" -> <<>>
    [] spec.kind = "closed" ->
         BytesUnit \o NumberToString(spec.a) \o <<"-">> \o NumberToString(spec.b)
    [] spec.kind = "from" -> BytesUnit \o NumberToString(spec.a) \o <<"-">>
    [] spec.kind = "suffix" -> BytesUnit \o <<"-">> \o NumberToString(spec.b)
    [] spec.kind = "spaced" ->
         BytesUnit \o <<" ">> \o NumberToString(spec.a) \o <<" ", "-", " ">>
           \o NumberToString(spec.b) \o <<" ">>
    [] spec.kind = "items" ->
         ItemsUnit \o NumberToString(spec.a) \o <<"-">> \o NumberToString(spec.b)
    [] spec.kind = "three" ->
         BytesUnit \o NumberToString(spec.a) \o <<"-">> \o NumberToString(spec.b)
           \o <<"-">> \o NumberToString(spec.b)

\* The resolved files of requests, and the bytes of a file of a given size.
ResolvedFiles == [origin : {"local", "remote"}, size : 1..MaxFileSize]
Content(size) == [i \in 1..size |-> i]

\* The payloads of stream-data messages.
Payloads == {<<7>>, <<8, 9>>}

\* The body of res.sendStatus(500): "Internal Server Error".
StatusText500 ==
  <<73, 110, 116, 101, 114, 110, 97, 108, 32, 83, 101, 114, 118, 101, 114,
    32, 69, 114, 114, 111, 114>>

\* pipeFile, up to its await of node.createReadStream: the range, the status
\* and the headers.
PipeFile(file, spec) ==
  /\ pc = "idle"
  /\ LET range == HeaderOf(spec)
         r == resolveRange(range)
         start == Coalesce(r.start, 0)
         end == Coalesce(r.end, file.size - 1)
     IN /\ request' = [file |-> file, spec |-> spec, range |-> range,
                       start |-> start.v, end |-> end.v]
        /\ res' = [statusCode |-> StatusCode(build, range, start, end),
                   contentLength |-> Some(RetrievedLength(start.v, end.v)),
                   contentRange |->
                     IF range # <<>>
                     THEN [start |-> start.v, end |-> end.v,
                           size |-> file.size]
                     ELSE Undefined,
                   headersSent |-> FALSE, body |-> <<>>, ended |-> FALSE]
  /\ pc' = "createReadStream"
  /\ UNCHANGED <<build, stream, linkUp, clientOpen, received, thrown>>
  /\ UNCHANGED <<bubbleVars, codecVars, treeVars, configVars, moreVars>>

\* if (!stream) { res.status(404).end(); return }
NoStreamResponse500(r) ==
  [r EXCEPT !.statusCode = 500, !.headersSent = TRUE, !.ended = TRUE]
NoStreamResponse(r) ==
  [r EXCEPT !.statusCode = 404, !.headersSent = TRUE, !.ended = TRUE]

\* openStream of a local file accepts a range that begins in the file and
\* does not end before it begins.
RangeInFile(start, end, size) == 0 <= start /\ start <= end /\ start < size

\* The bytes start..end of the file, end clamped to the last byte.
Slice(size, start, end) ==
  SubSeq(Content(size), start + 1,
         (IF end < size - 1 THEN end ELSE size - 1) + 1)

\* node.createReadStream(file, {start, end}) gives a stream, and pipeFile
\* listens to its errors and pipes it to res.
StreamOpened ==
  /\ \/ request.file.origin = "remote" /\ linkUp
     \/ /\ request.file.origin = "local"
        /\ RangeInFile(request.start, request.end, request.file.size)
  /\ stream' = [origin |-> request.file.origin, state |-> "flowing",
                rest |-> IF request.file.origin = "local"
                         THEN Slice(request.file.size, request.start,
                                    request.end)
                         ELSE <<>>,
                failing |-> FALSE]
  /\ pc' = "piping"
  /\ UNCHANGED <<res, thrown>>

\* node.createReadStream gives no stream: the owner's link is down, or (one
\* of the ways a range that is not in the file may be refused) the range is
\* refused.
StreamMissing ==
  /\ \/ request.file.origin = "remote" /\ ~linkUp
     \/ /\ request.file.origin = "local"
        /\ ~RangeInFile(request.start, request.end, request.file.size)
  /\ res' = NoStreamResponse(res)
  /\ pc' = "done"
  /\ UNCHANGED <<stream, thrown>>

\* A range that is not in the file may also be refused by an exception, which
\* rejects pipeFile's promise, or by a stream that emits an error.
StreamRefused ==
  /\ request.file.origin = "local"
  /\ ~RangeInFile(request.start, request.end, request.file.size)
  /\ \/ /\ pc' = "rejected"
        /\ thrown' = TRUE
        /\ UNCHANGED <<res, stream>>
     \/ /\ stream' = [origin |-> "local", state |-> "flowing", rest |-> <<>>,
                      failing |-> TRUE]
        /\ pc' = "piping"
        /\ UNCHANGED <<res, thrown>>

\* pipeFile, from the result of node.createReadStream on.
CreateReadStream ==
  /\ pc = "createReadStream"
  /\ StreamOpened \/ StreamMissing \/ StreamRefused
  /\ UNCHANGED <<build, request, linkUp, clientOpen, received>>
  /\ UNCHANGED <<bubbleVars, codecVars, treeVars, configVars, moreVars>>

\* stream.pipe(res): a chunk of a local file is written to the response.
LocalData(k) ==
  /\ pc = "piping" /\ stream.origin = "local" /\ stream.state = "flowing"
  /\ clientOpen
  /\ k \in 1..Len(stream.rest)
  /\ res' = [res EXCEPT !.headersSent = TRUE,
                        !.body = @ \o SubSeq(stream.rest, 1, k)]
  /\ stream' = [stream EXCEPT !.rest = SubSeq(@, k + 1, Len(@))]
  /\ UNCHANGED <<build, request, pc, linkUp, clientOpen, received, thrown>>
  /\ UNCHANGED <<bubbleVars, codecVars, treeVars, configVars, moreVars>>

\* A stream-data message of a remote stream arrives: its payload is written
\* to the response the stream is piped to, if the client is still there.
RemoteData(payload) ==
  /\ pc = "piping" /\ stream.origin = "remote" /\ stream.state = "flowing"
  /\ linkUp
  /\ Len(received) < MaxMsgs
  /\ received' = Append(received, payload)
  /\ IF clientOpen
     THEN res' = [res EXCEPT !.headersSent = TRUE, !.body = @ \o payload]
     ELSE UNCHANGED res
  /\ UNCHANGED <<build, request, pc, stream, linkUp, clientOpen, thrown>>
  /\ UNCHANGED <<bubbleVars, codecVars, treeVars, configVars, moreVars>>

\* The stream ends (the file is read to the end of the range, or the
\* stream-end message arrives): the pipe ends the response.
StreamEnd ==
  /\ pc = "piping" /\ stream.state = "flowing" /\ ~stream.failing
  /\ IF stream.origin = "local" THEN clientOpen /\ stream.rest = <<>>
     ELSE linkUp
  /\ stream' = [stream EXCEPT !.state = "ended"]
  /\ IF clientOpen
     THEN res' = [res EXCEPT !.headersSent = TRUE, !.ended = TRUE]
     ELSE UNCHANGED res
  /\ pc' = "done"
  /\ UNCHANGED <<build, request, linkUp, clientOpen, received, thrown>>
  /\ UNCHANGED <<bubbleVars, codecVars, treeVars, configVars, moreVars>>

\* res.sendStatus(500): it assigns res.statusCode, then sets the headers of
\* the status text, which throws if the headers are sent already, then
\* sends the text and ends the response; for a client that has closed its
\* connection the response is ended but no header and no text is sent.
SendStatus500Anyway(r, open) ==
  [r EXCEPT !.statusCode = 500, !.headersSent = TRUE,
            !.body = @ \o StatusText500, !.ended = TRUE]
SendStatus500(r, open) ==
  IF r.headersSent THEN [r EXCEPT !.statusCode = 500]
  ELSE IF ~open
  THEN [r EXCEPT !.statusCode = 500,
                 !.contentLength = Some(Len(StatusText500)),
                 !.ended = TRUE]
  ELSE [r EXCEPT !.statusCode = 500,
                 !.contentLength = Some(Len(StatusText500)),
                 !.headersSent = TRUE, !.body = StatusText500,
                 !.ended = TRUE]

\* stream.on("error", (_) => { res.sendStatus(500) })
StreamError ==
  /\ pc = "piping" /\ stream.state = "flowing"
  /\ stream' = [stream EXCEPT !.state = "errored"]
  /\ res' = SendStatus500(res, clientOpen)
  /\ thrown' = (thrown \/ res.headersSent)
  /\ pc' = "done"
  /\ UNCHANGED <<build, request, linkUp, clientOpen, received>>
  /\ UNCHANGED <<bubbleVars, codecVars, treeVars, configVars, moreVars>>

\* The HTTP client closes its connection: pipeFile listens to no event of the
\* request or of the response, and the pipe only stops writing.
ClientClose ==
  /\ pc \in {"createReadStream", "piping"}
  /\ clientOpen
  /\ clientOpen' = FALSE
  /\ UNCHANGED <<build, request, res, pc, stream, linkUp, received, thrown>>
  /\ UNCHANGED <<bubbleVars, codecVars, treeVars, configVars, moreVars>>

\* The link to the owner of a remote file goes down.
LinkDrop ==
  /\ linkUp
  /\ pc \in {"createReadStream", "piping"}
  /\ request.file.origin = "remote"
  /\ linkUp' = FALSE
  /\ UNCHANGED <<build, request, res, pc, stream, clientOpen, received,
                 thrown>>
  /\ UNCHANGED <<bubbleVars, codecVars, treeVars, configVars, moreVars>>

FileInit ==
  /\ build \in Builds
  /\ request = Null
  /\ res = Null
  /\ pc = "idle"
  /\ stream = Null
  /\ linkUp = TRUE
  /\ clientOpen = TRUE
  /\ received = <<>>
  /\ thrown = FALSE

FileIdle == FileInit /\ build = "server.ts"

FileNext ==
  \/ \E file \in ResolvedFiles, spec \in RangeSpecs : PipeFile(file, spec)
  \/ CreateReadStream
  \/ \E k \in 1..MaxFileSize : LocalData(k)
  \/ \E payload \in Payloads : RemoteData(payload)
  \/ StreamEnd
  \/ StreamError
  \/ ClientClose
  \/ LinkDrop

(***************************************************************************)
(* config.ts: setupConfig and findConfig; server.ts: the passcode          *)
(* middleware in front of /list and /file                                  *)
(***************************************************************************)
\* Strings of the configuration and of requests are sequences of character
\* codes: "P", "p", "undefined", a generated uuid, and keys in base64.
NameP == <<80>>
PassP == <<112>>
StrUndefined == <<117, 110, 100, 101, 102, 105, 110, 101, 100>>
Uuid == <<117, 117, 105, 100>>
FileKey == <<107>>
GeneratedPublicKey == <<71, 80>>
GeneratedSecretKey == <<71, 83>>

\* The keys of a configuration object; a key the object lacks is Undefined.
ConfigKeys == {"name", "passcode", "publicKey", "privateKey", "port"}
EmptyObject == [k \in ConfigKeys |-> Undefined]

defaultConfig == [EmptyObject EXCEPT !.port = Some(80)]

\* Object.assign(target, source): the source's own keys overwrite.
ObjectAssign(target, source) ==
  [k \in ConfigKeys |-> IF source[k] # Undefined THEN source[k] ELSE target[k]]

\* A value used as a condition: undefined and the empty string are falsy.
Truthy(x) == x # Undefined /\ x.v # <<>>

\* What a call gives: a value, or an exception.
Threw == [threw |-> TRUE]

\* setupConfig(config). nacl.box.keyPair.fromSecretKey takes a Uint8Array
\* and throws a TypeError when given the string of the configuration.
setupConfig(cfg) ==
  LET c0 == ObjectAssign(ObjectAssign(EmptyObject, cfg), defaultConfig)
  IN IF Truthy(c0.privateKey) /\ ~Truthy(c0.publicKey)
     THEN Threw
     ELSE LET c1 == IF ~Truthy(c0.privateKey) /\ ~Truthy(c0.publicKey)
                    THEN [c0 EXCEPT !.publicKey = Some(GeneratedPublicKey),
                                    !.privateKey = Some(GeneratedSecretKey)]
                    ELSE c0
          IN IF ~Truthy(c1.name) THEN [c1 EXCEPT !.name = Some(Uuid)]
             ELSE c1

\* The configuration files findConfig may find.
ConfigFiles ==
  [name : {Undefined, Some(NameP)},
   passcode : {Undefined, Some(<<>>), Some(PassP), Some(StrUndefined)},
   publicKey : {Undefined, Some(FileKey)},
   privateKey : {Undefined, Some(FileKey)},
   port : {Undefined, Some(8080)}]

\* The directories: absolute paths of at most MaxDirDepth names.
DirNames == {"u", "v"}
AllDirs == SeqsUpTo(DirNames, MaxDirDepth)

dirnameNoRoot(dir) ==
  IF dir = <<>> THEN <<"u">> ELSE SubSeq(dir, 1, Len(dir) - 1)

\* path.dirname(dir): the parent, and the root for the root.
dirname(dir) ==
  IF dir = <<>> THEN <<>> ELSE SubSeq(dir, 1, Len(dir) - 1)

\* fs.existsSync(path.join(dir, fileName))
existsSync(dir) ==
  \/ disk # Null /\ configDir = dir
  \/ created # Null /\ created.dir = dir

\* One turn of the loop of findFsEntryInTree(dir, fileName): the test of the
\* while, and its body.
findFsEntryInTree ==
  /\ search.pc = "loop"
  /\ search' =
       IF search.lastDir = Some(search.dir)
       THEN [search EXCEPT !.pc = "returned"]
       ELSE IF existsSync(search.dir)
       THEN [search EXCEPT !.pc = "returned", !.configFile = Some(search.dir)]
       ELSE [search EXCEPT !.lastDir = Some(search.dir),
                           !.dir = dirname(search.dir)]
  /\ UNCHANGED <<disk, rootDir, configDir, created, config, findConfigThrew,
                 httpReq>>
  /\ UNCHANGED <<bubbleVars, codecVars, treeVars, configVars, fileVars,
                 cacheVars, scanVars, notifyVars, lateVars>>

\* findConfig({ rootDir, filename }), called once when the process starts,
\* from the answer of findFsEntryInTree on.
findConfig ==
  /\ search.pc = "returned"
  /\ config = Null /\ ~findConfigThrew
  /\ UNCHANGED <<rootDir, configDir, search>>
  /\ IF search.configFile # Null
     THEN LET cfg == ObjectAssign(ObjectAssign(EmptyObject, defaultConfig),
                                  disk)
          IN IF setupConfig(cfg) = Threw
             THEN /\ findConfigThrew' = TRUE
                  /\ UNCHANGED <<disk, config, created>>
             ELSE /\ disk' = cfg
                  /\ config' = cfg
                  /\ UNCHANGED <<findConfigThrew, created>>
     ELSE /\ created' = [dir |-> rootDir, content |-> setupConfig(EmptyObject)]
          /\ findConfigThrew' = TRUE
          /\ UNCHANGED <<disk, config>>
  /\ UNCHANGED httpReq
  /\ UNCHANGED <<bubbleVars, codecVars, treeVars, configVars, fileVars,
                 cacheVars, scanVars, notifyVars,
                 lateVars>>

\* The characters of query values: "p", "%", "7" and "0" ("%70" is an
\* escaped "p"; every escape these spell is below %80).
QueryChars == {112, 37, 55, 48}
Queries == {Undefined} \cup {Some(q) : q \in SeqsUpTo(QueryChars, MaxQueryLen)}
Bodies == {Undefined, Some(PassP)}

IsHexDigit(c) == c \in (48..57) \cup (65..70) \cup (97..102)
HexDigitValue(c) ==
  IF c \in 48..57 THEN c - 48 ELSE IF c \in 65..70 THEN c - 55 ELSE c - 87

\* The characters decodeURI leaves escaped: ; / ? : @ & = + $ , #
ReservedURI == {59, 47, 63, 58, 64, 38, 61, 43, 36, 44, 35}

URIError == [ok |-> FALSE, out |-> <<>>]

\* decodeURI(str): every escape of a character outside the reserved set is
\* replaced by the character; a "%" that two hexadecimal digits do not
\* follow raises a URIError. An escape of %80 or above starts a sequence of
\* at least two escapes (six characters), and raises a URIError without them.
RECURSIVE decodeURIString(_)
decodeURIString(str) ==
  IF str = <<>> THEN [ok |-> TRUE, out |-> <<>>]
  ELSE IF str[1] # 37
  THEN LET r == decodeURIString(Tail(str))
       IN [ok |-> r.ok, out |-> <<str[1]>> \o r.out]
  ELSE IF Len(str) < 3 \/ ~IsHexDigit(str[2]) \/ ~IsHexDigit(str[3])
  THEN URIError
  ELSE LET B == 16 * HexDigitValue(str[2]) + HexDigitValue(str[3])
           r == decodeURIString(SubSeq(str, 4, Len(str)))
       IN IF B >= 128 THEN URIError
          ELSE IF B \in ReservedURI
          THEN [ok |-> r.ok, out |-> SubSeq(str, 1, 3) \o r.out]
          ELSE [ok |-> r.ok, out |-> <<B>> \o r.out]

\* decodeURI(x): its argument is converted to a string first, and undefined
\* to "undefined".
decodeURI(x) ==
  decodeURIString(IF x = Undefined THEN StrUndefined ELSE x.v)

\* a ?? b
NullishCoalesce(a, b) == IF a = Undefined THEN b ELSE a

\* The passcode middleware: "next" (the route's handler runs) or the status
\* it answers. server.ts has no try around decodeURI: express answers an
\* exception of a middleware with 500.
passcodeHandler(b, cfg, query, body) ==
  IF ~Truthy(cfg.passcode) THEN "next"
  ELSE LET decoded == decodeURI(query)
       IN IF ~decoded.ok
          THEN (IF b = "server.ts" THEN "500" ELSE "400")
          ELSE LET passcode == NullishCoalesce(Some(decoded.out), body)
               IN IF passcode # cfg.passcode THEN "401" ELSE "next"

\* The path /file requests ask for here.
FilePathAsked == <<"video.mp4">>

\* A GET /list or GET /file request: the passcode middleware, then the
\* route's handler if the middleware calls next(). One request is followed.
PasscodeRequest(route, query, body) ==
  /\ config # Null /\ httpReq = Null
  /\ httpReq' = [route |-> route, query |-> query, body |-> body]
  /\ LET out == passcodeHandler(build, config, query, body)
     IN response' =
          IF out = "next"
          THEN (IF route = "list" THEN ListResponse
                ELSE FileResponse(FilePathAsked))
          ELSE [kind |-> "passcode", status |-> out,
                body |-> IF out = "401" THEN "incorrectPasscode"
                         ELSE IF out = "400" THEN "badURI" ELSE "error"]
  /\ UNCHANGED <<disk, rootDir, configDir, created, search, config,
                 findConfigThrew>>
  /\ UNCHANGED <<localTree, childLink, proof, announced, connected,
                 mergedTree, fullTreeCache>>
  /\ UNCHANGED <<bubbleVars, codecVars, configVars, fileVars, cacheVars,
                 scanVars, notifyVars,
                 lateVars>>

\* findFsEntryInTree(curDir, filename) at its first turn.
SearchFrom(dir) ==
  [pc |-> "loop", dir |-> dir, lastDir |-> Null, configFile |-> Null]

GateInit ==
  /\ disk \in {Null} \cup ConfigFiles
  /\ rootDir = <<>>
  /\ configDir = <<>>
  /\ created = Null
  /\ search = SearchFrom(rootDir)
  /\ config = Null
  /\ findConfigThrew = FALSE
  /\ httpReq = Null

\* The gate at rest: no configuration file is looked for.
GateIdle == GateInit /\ disk = Null

\* findConfig for a rootDir of any depth, and a configuration file in any
\* directory or in none.
FindInit ==
  /\ disk \in {Null} \cup {c \in ConfigFiles : c.passcode = Undefined}
  /\ rootDir \in AllDirs
  /\ configDir \in AllDirs
  /\ disk = Null => configDir = <<>>
  /\ created = Null
  /\ search = SearchFrom(rootDir)
  /\ config = Null
  /\ findConfigThrew = FALSE
  /\ httpReq = Null

FindNext == findFsEntryInTree \/ findConfig

GateNext ==
  \/ findFsEntryInTree
  \/ findConfig
  \/ \E route \in {"list", "file"}, query \in Queries, body \in Bodies :
       PasscodeRequest(route, query, body)

(***************************************************************************)
(* plugin/hls.ts: CachePlugin.onNodeCreateReadStream and duplicateStream   *)
(***************************************************************************)
\* The callers of onNodeCreateReadStream: two requests for the same file.
Callers == {"first", "second"}

\* config.maxSize and config.maxAge, in bytes and in ticks of the clock.
maxSize == MaxFileSize - 1
maxAge == MaxClock - 1

\* The options pipeFile passes for a Range header: { start, end }, what
\* resolveRange reads in the header, 0 for a start and the last byte of the
\* file for an end it does not give. Nothing holds them inside the file.
pipeFileOptions(range, size) ==
  LET resolved == resolveRange(range)
  IN [start |-> Coalesce(resolved.start, 0).v,
      end |-> Coalesce(resolved.end, size - 1).v]

\* fs.existsSync(cachePath): the cache file is a regular file whenever it
\* exists.
Cached == cacheFile # Null

\* if (options) { start is neither undefined nor 0, or end is neither
\* undefined nor the last byte }
PartialNever(options, size) == FALSE
Partial(options, size) ==
  options # Undefined /\ (options.start # 0 \/ options.end # size - 1)

\* A call that is not made yet. Of a call, cache is where its write stream
\* on cachePath is ("none", "opening" or "open"), and written is the
\* number of bytes that stream has written to the file.
NoCall ==
  [pc |-> "idle", local |-> FALSE, options |-> Undefined, pos |-> 0,
   body |-> <<>>, fromCache |-> FALSE, age |-> 0,
   cache |-> "none", written |-> 0]

\* What onNodeCreateReadStream comes to, up to its return or to its first
\* await: "bypass" is a return of undefined (the server opens the stream
\* itself), "stat" the await of fsstate(cachePath) for a file that exists,
\* "fetching" the await of node.createReadStream(file).
LookupOutcome(local, options) ==
  IF local THEN "bypass"
  ELSE IF remoteSize > maxSize THEN "bypass"
  ELSE IF Cached THEN "stat"
  ELSE IF Partial(options, remoteSize) THEN "bypass"
  ELSE "fetching"

\* pipeFile, for a request with the Range header range, calls
\* onNodeCreateReadStream(node, file, options).
Lookup(r, local, range) ==
  /\ ~exited
  /\ call[r].pc = "idle"
  /\ LET options == pipeFileOptions(range, remoteSize)
     IN call' = [call EXCEPT ![r] =
          [@ EXCEPT !.local = local, !.options = options,
                    !.pc = LookupOutcome(local, options)]]
  /\ UNCHANGED <<now, cacheFile, remoteSize, exited>>
  /\ UNCHANGED <<bubbleVars, codecVars, treeVars, configVars, fileVars,
                 gateVars, scanVars, notifyVars,
                 lateVars>>

\* fsstate(cachePath) answers that cachePath is a file (nothing removes
\* it), and the plugin calls fs.createReadStream(cachePath, options). For a
\* start beyond the end this throws ERR_OUT_OF_RANGE: the plugin's promise
\* is rejected and with it the promise of the route's handler, which nothing
\* catches, and the process ends. Otherwise the caller is given a read
\* stream on the cached copy, as it is then.
CacheStat(r) ==
  /\ ~exited
  /\ call[r].pc = "stat"
  /\ IF call[r].options.start > call[r].options.end
     THEN /\ call' = [call EXCEPT ![r].pc = "rejected"]
          /\ exited' = TRUE
     ELSE /\ call' = [call EXCEPT ![r].pc = "hit",
                                  ![r].fromCache = TRUE,
                                  ![r].age = now - cacheFile.mtime]
          /\ UNCHANGED exited
  /\ UNCHANGED <<now, cacheFile, remoteSize>>
  /\ UNCHANGED <<bubbleVars, codecVars, treeVars, configVars, fileVars,
                 gateVars, scanVars, notifyVars,
                 lateVars>>

\* node.createReadStream(file) gives null: the plugin returns null.
FetchRefused(r) ==
  /\ ~exited
  /\ call[r].pc = "fetching"
  /\ call' = [call EXCEPT ![r].pc = "null"]
  /\ UNCHANGED <<now, cacheFile, remoteSize, exited>>
  /\ UNCHANGED <<bubbleVars, codecVars, treeVars, configVars, fileVars,
                 gateVars, scanVars, notifyVars,
                 lateVars>>

\* node.createReadStream(file) gives a stream: the plugin calls mkdir and
\* awaits it. The stream has no listener yet.
FetchOpened(r) ==
  /\ ~exited
  /\ call[r].pc = "fetching"
  /\ call' = [call EXCEPT ![r].pc = "mkdir"]
  /\ UNCHANGED <<now, cacheFile, remoteSize, exited>>
  /\ UNCHANGED <<bubbleVars, codecVars, treeVars, configVars, fileVars,
                 gateVars, scanVars, notifyVars,
                 lateVars>>

\* The source stream emits an error while the plugin awaits mkdir:
\* errorHandler is not attached yet, the error is an uncaught exception,
\* which ends the process (the server answers it with process.exit(1)).
FetchErrorUncaught(r) ==
  /\ ~exited
  /\ call[r].pc = "mkdir"
  /\ exited' = TRUE
  /\ UNCHANGED <<now, cacheFile, remoteSize, call>>
  /\ UNCHANGED <<bubbleVars, codecVars, treeVars, configVars, fileVars,
                 gateVars, scanVars, notifyVars,
                 lateVars>>

\* mkdir answers: duplicateStream(stream) pipes the stream into two clones
\* and attaches errorHandler, fs.createWriteStream(cachePath) begins to
\* open the file, and the plugin returns forResponse.
FetchMkdir(r) ==
  /\ ~exited
  /\ call[r].pc = "mkdir"
  /\ call' = [call EXCEPT ![r].pc = "filling", ![r].cache = "opening"]
  /\ UNCHANGED <<now, cacheFile, remoteSize, exited>>
  /\ UNCHANGED <<bubbleVars, codecVars, treeVars, configVars, fileVars,
                 gateVars, scanVars, notifyVars,
                 lateVars>>

\* The write stream opens cachePath: this creates the file, or truncates
\* it.
CacheOpen(r) ==
  /\ ~exited
  /\ call[r].cache = "opening"
  /\ call' = [call EXCEPT ![r].cache = "open"]
  /\ cacheFile' = [bytes |-> <<>>, mtime |-> now]
  /\ UNCHANGED <<now, remoteSize, exited>>
  /\ UNCHANGED <<bubbleVars, codecVars, treeVars, configVars, fileVars,
                 gateVars, scanVars, notifyVars,
                 lateVars>>

\* A write of one byte at a position of the file: a write beyond the end
\* of the file leaves zeros in between.
WriteAt(bytes, pos, byte) ==
  [i \in 1..(IF Len(bytes) > pos THEN Len(bytes) ELSE pos + 1) |->
     IF i = pos + 1 THEN byte ELSE IF i <= Len(bytes) THEN bytes[i] ELSE 0]

\* The source stream emits a chunk (of one byte): both clones pass it on,
\* forResponse to the caller and forCache to the write stream.
FetchData(r) ==
  /\ ~exited
  /\ call[r].pc = "filling"
  /\ call[r].pos < remoteSize
  /\ call' = [call EXCEPT
       ![r].pos = @ + 1,
       ![r].body = Append(@, Content(remoteSize)[call[r].pos + 1])]
  /\ UNCHANGED <<now, cacheFile, remoteSize, exited>>
  /\ UNCHANGED <<bubbleVars, codecVars, treeVars, configVars, fileVars,
                 gateVars, scanVars, notifyVars,
                 lateVars>>

\* The write stream, once the file is open, writes the next chunk it was
\* given, at its own position in the file.
CacheWrite(r) ==
  /\ ~exited
  /\ call[r].cache = "open"
  /\ call[r].written < call[r].pos
  /\ call' = [call EXCEPT ![r].written = @ + 1]
  /\ cacheFile' = [bytes |-> WriteAt(cacheFile.bytes, call[r].written,
                                      Content(remoteSize)[call[r].written + 1]),
                   mtime |-> now]
  /\ UNCHANGED <<now, remoteSize, exited>>
  /\ UNCHANGED <<bubbleVars, codecVars, treeVars, configVars, fileVars,
                 gateVars, scanVars, notifyVars,
                 lateVars>>

\* The source stream ends after its last chunk.
FetchEnd(r) ==
  /\ ~exited
  /\ call[r].pc = "filling"
  /\ call[r].pos = remoteSize
  /\ call' = [call EXCEPT ![r].pc = "done"]
  /\ UNCHANGED <<now, cacheFile, remoteSize, exited>>
  /\ UNCHANGED <<bubbleVars, codecVars, treeVars, configVars, fileVars,
                 gateVars, scanVars, notifyVars,
                 lateVars>>

\* The source stream emits an error: errorHandler destroys both clones
\* with it, and forResponse emits it to the listener of pipeFile, which
\* calls res.sendStatus(500). Before the first chunk this answers 500;
\* after it the headers are sent, sendStatus throws within the listener,
\* and this uncaught exception ends the process. Nothing closes the write
\* stream or removes the file it writes.
FetchError(r) ==
  /\ ~exited
  /\ call[r].pc = "filling"
  /\ call' = [call EXCEPT ![r].pc = "failed"]
  /\ exited' = (call[r].pos >= 1)
  /\ UNCHANGED <<now, cacheFile, remoteSize>>
  /\ UNCHANGED <<bubbleVars, codecVars, treeVars, configVars, fileVars,
                 gateVars, scanVars, notifyVars,
                 lateVars>>

\* The bytes one read of a read stream on the file gives, after it has
\* given read bytes: those the file holds now from its position on, up to
\* options.end; none at the end of the file or past options.end.
ReadFile(bytes, options, read) ==
  LET from == options.start + read
      last == IF options.end + 1 < Len(bytes) THEN options.end + 1
              ELSE Len(bytes)
  IN IF from >= last THEN <<>> ELSE SubSeq(bytes, from + 1, last)

\* A read of the stream of fs.createReadStream(cachePath, options): the
\* caller is given the bytes read, and the stream ends when a read gives
\* none.
CacheRead(r) ==
  /\ ~exited
  /\ call[r].pc = "hit"
  /\ LET chunk == ReadFile(cacheFile.bytes, call[r].options,
                           Len(call[r].body))
     IN call' = [call EXCEPT
          ![r].pc = IF chunk = <<>> THEN "done" ELSE "hit",
          ![r].body = @ \o chunk]
  /\ UNCHANGED <<now, cacheFile, remoteSize, exited>>
  /\ UNCHANGED <<bubbleVars, codecVars, treeVars, configVars, fileVars,
                 gateVars, scanVars, notifyVars,
                 lateVars>>

\* Time passes.
Tick ==
  /\ now < MaxClock
  /\ now' = now + 1
  /\ UNCHANGED <<call, cacheFile, remoteSize, exited>>
  /\ UNCHANGED <<bubbleVars, codecVars, treeVars, configVars, fileVars,
                 gateVars, scanVars, notifyVars,
                 lateVars>>

CacheInit ==
  /\ now = 0
  /\ cacheFile = Null
  /\ remoteSize \in 1..MaxFileSize
  /\ call = [r \in Callers |-> NoCall]
  /\ exited = FALSE

\* The cache at rest: no call is made.
CacheIdle == CacheInit /\ remoteSize = 1

CacheNext ==
  \/ \E r \in Callers, local \in BOOLEAN, spec \in RangeSpecs :
       Lookup(r, local, HeaderOf(spec))
  \/ \E r \in Callers : CacheStat(r)
  \/ \E r \in Callers : FetchRefused(r)
  \/ \E r \in Callers : FetchOpened(r)
  \/ \E r \in Callers : FetchErrorUncaught(r)
  \/ \E r \in Callers : FetchMkdir(r)
  \/ \E r \in Callers : CacheOpen(r)
  \/ \E r \in Callers : FetchData(r)
  \/ \E r \in Callers : CacheWrite(r)
  \/ \E r \in Callers : FetchEnd(r)
  \/ \E r \in Callers : FetchError(r)
  \/ \E r \in Callers : CacheRead(r)
  \/ Tick

(***************************************************************************)
(* host.ts: createFileTreeFrom, makeFSOFilter and makeFilePathClassifier   *)
(***************************************************************************)
\* What the filesystem holds under a name: a regular file with its size, a
\* directory with its entries, or something that is neither.
FsFile(size) == [kind |-> "file", size |-> size]
FsDir(entries) == [kind |-> "dir", entries |-> entries]
FsOther == [kind |-> "other"]

\* The extension of each file name of the model, as written.
ExtOf ==
  ("a.mp4" :> "mp4") @@ ("B.MP4" :> "MP4") @@ ("n.txt" :> "txt")
  @@ ("x.bin" :> "bin") @@ ("d.app" :> "app") @@ ("sub" :> "")
  @@ ("srv" :> "")
ScanNames == DOMAIN ExtOf \ {"srv"}

\* String.prototype.toLowerCase, of the extensions of the model.
LowerCase(ext) == IF ext = "MP4" THEN "mp4" ELSE ext

\* minimatch(path, pattern, { nocase: true }) for the patterns of the
\* configuration, "**/*.<ext>": the last segment of the path ends with the
\* extension, whatever the case of its letters.
minimatch(path, pattern) ==
  Len(path) > 0 /\ LowerCase(ExtOf[path[Len(path)]]) = LowerCase(pattern)

\* makeFSOFilter(ignorePattern): the path matches none of the patterns.
makeFSOFilterAcceptAll(ignorePattern, path) == TRUE
makeFSOFilter(ignorePattern, path) ==
  \A i \in 1..Len(ignorePattern) : ~minimatch(path, ignorePattern[i])

\* makeFilePathClassifier(fileTypePattern): the type of the first entry
\* whose pattern the path matches, or null.
makeFilePathClassifier(fileTypePattern, path) ==
  IF \E i \in 1..Len(fileTypePattern) :
       minimatch(path, fileTypePattern[i].pattern)
  THEN LET i == CHOOSE j \in 1..Len(fileTypePattern) :
                  /\ minimatch(path, fileTypePattern[j].pattern)
                  /\ \A k \in 1..(j - 1) :
                       ~minimatch(path, fileTypePattern[k].pattern)
       IN Some(fileTypePattern[i].type)
  ELSE Null

\* LocalFileTree.subtreeChildrenCount: the entries added to the subtree.
subtreeChildrenCount(subtree) == Cardinality(DOMAIN subtree.entries)

\* if (!ignoreEmptyDir || subtree.subtreeChildrenCount > 0)
KeepSubtreeAlways(ignoreEmptyDir, subtree) == TRUE
KeepSubtree(ignoreEmptyDir, subtree) ==
  ~ignoreEmptyDir \/ subtreeChildrenCount(subtree) > 0

\* What the filesystem holds at a path under the root, or Null.
RECURSIVE FsWalk(_, _)
FsWalk(e, parts) ==
  IF parts = <<>> THEN e
  ELSE IF e.kind # "dir" \/ Head(parts) \notin DOMAIN e.entries THEN Null
  ELSE FsWalk(e.entries[Head(parts)], Tail(parts))

\* The directory with the entry at a path under it replaced, or removed
\* where the new entry is Null.
RECURSIVE FsSet(_, _, _)
FsSet(e, parts, new) ==
  IF Len(parts) > 1
  THEN FsDir([e.entries EXCEPT ![Head(parts)] = FsSet(@, Tail(parts), new)])
  ELSE IF new = Null
  THEN FsDir([n \in DOMAIN e.entries \ {Head(parts)} |-> e.entries[n]])
  ELSE FsDir((Head(parts) :> new) @@ e.entries)

\* The paths of everything under a directory of the filesystem.
RECURSIVE FsPaths(_)
FsPaths(e) ==
  IF e.kind # "dir" THEN {}
  ELSE UNION {{<<n>>} \cup {<<n>> \o q : q \in FsPaths(e.entries[n])} :
              n \in DOMAIN e.entries}

\* The orders fs.readdir may list names in: the file system chooses.
Orders(S) ==
  {f \in [1..Cardinality(S) -> S] :
     \A i \in 1..Cardinality(S), j \in 1..Cardinality(S) :
       i # j => f[i] # f[j]}

\* The path of the root directory.
RootPath == <<"srv">>

\* A path below the root, as the names from the root on.
Below(path) == SubSeq(path, Len(RootPath) + 1, Len(path))

\* tree.addFile(fileName, entry)
addFile(tree, fileName, entry) ==
  Dir(IF fileName \in DOMAIN tree.entries THEN tree.order
      ELSE Append(tree.order, fileName),
      (fileName :> entry) @@ tree.entries)

\* A call of walk(tree, curDir) that has not returned: the names readdir
\* listed that the loop has not finished with, the first of them the one the
\* loop is at.
Call(tree, curDir, files) == [tree |-> tree, curDir |-> curDir, files |-> files]

\* walk(tree, curDir) from the answer of an await to the next await, over the
\* calls that have not returned (the innermost last): the loop passes the
\* names the filter refuses and calls statAsync for the next one; at the end
\* of the names the call returns to the loop of the directory above, which
\* adds the subtree if it is to be kept; the first call returns to
\* createFileTreeFrom.
RECURSIVE walk(_, _)
walk(stack, o) ==
  LET top == stack[Len(stack)]
      rest == SubSeq(stack, 1, Len(stack) - 1)
  IN IF top.files # <<>>
     THEN IF makeFSOFilter(o.ignorePattern,
                           Append(top.curDir, Head(top.files)))
          THEN [pc |-> "stat", stack |-> stack]
          ELSE walk(Append(rest, [top EXCEPT !.files = Tail(@)]), o)
     ELSE IF Len(stack) = 1 THEN [pc |-> "returned", stack |-> stack]
     ELSE LET above == stack[Len(stack) - 1]
              fileName == Head(above.files)
          IN walk(Append(SubSeq(stack, 1, Len(stack) - 2),
                         [above EXCEPT
                            !.files = Tail(@),
                            !.tree = IF KeepSubtree(o.ignoreEmptyDir, top.tree)
                                     THEN addFile(@, fileName, top.tree)
                                     ELSE @]),
                  o)

\* What walk has come to: its next await, or the tree createFileTreeFrom
\* returns.
Walked(stack) ==
  LET w == walk(stack, scanOptions)
  IN /\ walking' = [walking EXCEPT !.pc = w.pc, !.stack = w.stack]
     /\ scanned' = IF w.pc = "returned" THEN w.stack[1].tree ELSE scanned

\* createFileTreeFrom({ root, ignoreEmptyDir, classifier, includes }) up to
\* its await of statAsync(root).
createFileTreeFrom ==
  /\ walking = Null /\ scanned = Null
  /\ walking' = [pc |-> "statRoot", stack |-> <<>>, changes |-> 0]
  /\ UNCHANGED <<fsRoot, scanOptions, scanned>>
  /\ UNCHANGED <<bubbleVars, codecVars, treeVars, configVars, fileVars,
                 gateVars, cacheVars, notifyVars,
                 lateVars>>

\* The answer of statAsync(root): createFileTreeFrom throws for a root that
\* is no directory, or calls walk(tree, root), which awaits readdirAsync.
StatRoot ==
  /\ walking # Null /\ walking.pc = "statRoot"
  /\ IF fsRoot.kind # "dir"
     THEN /\ walking' = [walking EXCEPT !.pc = "threw"]
          /\ scanned' = Threw
     ELSE /\ walking' = [walking EXCEPT
                           !.pc = "readdir",
                           !.stack = <<Call(EmptyDir, RootPath, <<>>)>>]
          /\ UNCHANGED scanned
  /\ UNCHANGED <<fsRoot, scanOptions>>
  /\ UNCHANGED <<bubbleVars, codecVars, treeVars, configVars, fileVars,
                 gateVars, cacheVars, notifyVars,
                 lateVars>>

\* The answer of readdirAsync(curDir): the names of the directory as it is
\* now, in the order the file system lists them; walk returns if there is no
\* such directory any more.
Readdir ==
  /\ walking # Null /\ walking.pc = "readdir"
  /\ LET stack == walking.stack
         top == stack[Len(stack)]
         rest == SubSeq(stack, 1, Len(stack) - 1)
         dir == FsWalk(fsRoot, Below(top.curDir))
     IN IF dir = Null
        THEN Walked(stack)
        ELSE IF dir.kind # "dir"
        THEN Walked(stack)
        ELSE \E files \in Orders(DOMAIN dir.entries) :
               Walked(Append(rest, [top EXCEPT !.files = files]))
  /\ UNCHANGED <<fsRoot, scanOptions>>
  /\ UNCHANGED <<bubbleVars, codecVars, treeVars, configVars, fileVars,
                 gateVars, cacheVars, notifyVars,
                 lateVars>>

\* The answer of statAsync(filePath), for what the path holds now: a file the
\* classifier gives a type is added, a directory is walked, and the loop
\* goes on after an error.
Stat ==
  /\ walking # Null /\ walking.pc = "stat"
  /\ LET stack == walking.stack
         top == stack[Len(stack)]
         rest == SubSeq(stack, 1, Len(stack) - 1)
         fileName == Head(top.files)
         filePath == Append(top.curDir, fileName)
         stat == FsWalk(fsRoot, Below(filePath))
         type == makeFilePathClassifier(scanOptions.pattern2FileType,
                                        filePath)
         next == [top EXCEPT !.files = Tail(@)]
     IN IF stat = Null
        THEN Walked(Append(rest, next))
        ELSE IF stat.kind = "file"
        THEN Walked(Append(rest,
                           IF type = Null THEN next
                           ELSE [next EXCEPT
                                   !.tree = addFile(@, fileName,
                                                    File(type.v,
                                                         stat.size))]))
        ELSE IF stat.kind = "dir"
        THEN /\ walking' = [walking EXCEPT
                              !.pc = "readdir",
                              !.stack = Append(stack,
                                               Call(EmptyDir, filePath, <<>>))]
             /\ UNCHANGED scanned
        ELSE Walked(Append(rest, next))
  /\ UNCHANGED <<fsRoot, scanOptions>>
  /\ UNCHANGED <<bubbleVars, codecVars, treeVars, configVars, fileVars,
                 gateVars, cacheVars, notifyVars,
                 lateVars>>

\* The scan awaits an answer of the file system.
Scanning == walking # Null /\ walking.pc \in {"statRoot", "readdir", "stat"}

\* The files that may be removed and those that may be put under the root
\* while a scan is under way.
UnlinkPaths == {<<"a.mp4">>, <<"sub", "a.mp4">>, <<"sub", "B.MP4">>}
PutPaths == {<<"sub", "a.mp4">>}

\* While a scan awaits, a file of the root directory is removed (as by
\* fs.unlink of admin.ts), or a file is moved to a path in it (as by
\* fs.rename of admin.ts).
FsUnlink(parts) ==
  /\ Scanning /\ walking.changes < MaxFsChanges
  /\ fsRoot.kind = "dir"
  /\ FsWalk(fsRoot, parts) # Null
  /\ FsWalk(fsRoot, parts).kind = "file"
  /\ fsRoot' = FsSet(fsRoot, parts, Null)
  /\ walking' = [walking EXCEPT !.changes = @ + 1]
  /\ UNCHANGED <<scanOptions, scanned>>
  /\ UNCHANGED <<bubbleVars, codecVars, treeVars, configVars, fileVars,
                 gateVars, cacheVars, notifyVars,
                 lateVars>>

FsRename(parts) ==
  /\ Scanning /\ walking.changes < MaxFsChanges
  /\ fsRoot.kind = "dir"
  /\ FsWalk(fsRoot, parts) = Null
  /\ FsWalk(fsRoot, SubSeq(parts, 1, Len(parts) - 1)) # Null
  /\ FsWalk(fsRoot, SubSeq(parts, 1, Len(parts) - 1)).kind = "dir"
  /\ fsRoot' = FsSet(fsRoot, parts, FsFile(1))
  /\ walking' = [walking EXCEPT !.changes = @ + 1]
  /\ UNCHANGED <<scanOptions, scanned>>
  /\ UNCHANGED <<bubbleVars, codecVars, treeVars, configVars, fileVars,
                 gateVars, cacheVars, notifyVars,
                 lateVars>>

\* A directory with, under each name, one of the choices for it or nothing.
DirsOf(choices) ==
  {FsDir([n \in {m \in DOMAIN f : f[m] # Null} |-> f[n]]) :
     f \in {g \in [DOMAIN choices -> UNION {choices[n] : n \in DOMAIN choices}
                                     \cup {Null}] :
              \A n \in DOMAIN choices : g[n] \in choices[n] \cup {Null}}}

\* The directories scanned: at the root a file of the greatest size, a
\* subdirectory (or something that is neither file nor directory)
\* with a file the classifier may give a type, one it gives none, and a
\* directory below it, and an entry the ignore pattern matches, file or
\* directory.
LeafDirs == DirsOf("x.bin" :> {FsFile(1)})
SubDirs ==
  DirsOf(("B.MP4" :> {FsFile(1)}) @@ ("n.txt" :> {FsFile(1)})
         @@ ("sub" :> LeafDirs))
RootDirs ==
  DirsOf(("a.mp4" :> {FsFile(MaxFileSize)})
         @@ ("sub" :> SubDirs \cup {FsOther})
         @@ ("d.app" :> {FsDir("a.mp4" :> FsFile(1)), FsFile(1)}))

\* config.ignore and config.fileTypePattern, in the order of their entries.
IgnorePatterns == {<<>>, <<"app">>}
FileTypePatterns ==
  { <<[pattern |-> "mp4", type |-> "video/mp4"]>>,
    <<[pattern |-> "mp4", type |-> "video/mp4"],
      [pattern |-> "txt", type |-> "text/plain"]>> }

ScanInit ==
  /\ fsRoot \in RootDirs \cup {FsFile(1)}
  /\ scanOptions \in [ignorePattern : IgnorePatterns,
                      pattern2FileType : FileTypePatterns,
                      ignoreEmptyDir : BOOLEAN]
  /\ walking = Null
  /\ scanned = Null

\* The scan at rest.
ScanIdle ==
  /\ fsRoot = FsFile(1)
  /\ scanOptions = [ignorePattern |-> <<>>,
                    pattern2FileType |-> <<>>,
                    ignoreEmptyDir |-> TRUE]
  /\ walking = Null
  /\ scanned = Null

ScanNext ==
  \/ createFileTreeFrom
  \/ StatRoot
  \/ Readdir
  \/ Stat
  \/ \E parts \in UnlinkPaths : FsUnlink(parts)
  \/ \E parts \in PutPaths : FsRename(parts)

(***************************************************************************)
(* server.ts: the "parent-node-change" listener; part_002: the             *)
(* "file-tree-update" listener with its plugins                            *)
(***************************************************************************)
\* The parents the node may be linked to.
Parents == {"U", "V"}

\* The number of messages sent to the parents so far.
RECURSIVE SentCount(_)
SentCount(S) ==
  IF S = {} THEN 0
  ELSE LET u == CHOOSE x \in S : TRUE
       IN Len(sentToParent[u]) + SentCount(S \ {u})

\* What the listener sends the parent: fullTreeCache.obj.files
ParentPayloadAtStart(cache) == EmptyDir
ParentPayload(cache) == cache.obj.files

\* The node emits "parent-node-change" when a parent link is added or
\* removed; the listener: if (!isAdded) return; parent.net.send(...)
ParentNodeChange(parent, isAdded) ==
  /\ build = "server.ts"
  /\ parentLink[parent] # isAdded
  /\ isAdded => SentCount(Parents) < MaxMsgs
  /\ parentLink' = [parentLink EXCEPT ![parent] = isAdded]
  /\ sentToParent' =
       IF ~isAdded THEN sentToParent
       ELSE [sentToParent EXCEPT ![parent] =
               Append(@, [id |-> "file-tree-rebuild",
                          data |-> ParentPayload(fullTreeCache)])]
  /\ UNCHANGED plugins
  /\ UNCHANGED <<bubbleVars, codecVars, treeVars, configVars, fileVars,
                 gateVars, cacheVars, scanVars,
                 lateVars>>

\* The "rebuild" listener of server.ts, whose "file-tree-update" listener
\* has no plugins.
RebuildOfServer(tree) ==
  /\ build = "server.ts"
  /\ RebuildListener(tree)

\* An object is a value with an identity: "node" is the tree the node
\* holds, and a change made to an object in place is seen by all who hold it.
Object(obj, tree) == [obj |-> obj, tree |-> tree]

\* cloneFileTreeJson(tree): a new object with a copy of all of the tree.
cloneFileTreeJson(entireTree) == Object("clone", entireTree.tree)

\* entireTree = cloneFileTreeJson(entireTree)
ListenerArgumentSame(entireTree) == entireTree
ListenerArgument(entireTree) == cloneFileTreeJson(entireTree)

\* What a plugin makes of the tree for clients: here it hides the files at
\* the top that are no videos.
ForClient(dir) ==
  LET kept == {m \in DOMAIN dir.entries :
                 ~dir.entries[m].file \/ dir.entries[m].type = "video/mp4"}
  IN Dir(SelectSeq(dir.order, LAMBDA n : n \in kept),
         [n \in kept |-> dir.entries[n]])

\* The plugins: one without the hook, one whose onEntireTreeForClient
\* returns a new tree, one whose hook changes the tree it is given in place
\* and returns it.
PluginKinds == {"nohook", "returnsNew", "inPlace"}

\* The loop over the plugins: the tree passed on, and the node's own tree
\* as the hooks leave it.
RECURSIVE RunPlugins(_, _, _)
RunPlugins(ps, entireTree, nodeTree) ==
  IF ps = <<>> THEN [entireTree |-> entireTree, nodeTree |-> nodeTree]
  ELSE IF Head(ps) = "nohook"
  THEN RunPlugins(Tail(ps), entireTree, nodeTree)
  ELSE IF Head(ps) = "returnsNew"
  THEN RunPlugins(Tail(ps), Object("new", ForClient(entireTree.tree)),
                  nodeTree)
  ELSE RunPlugins(Tail(ps),
                  Object(entireTree.obj, ForClient(entireTree.tree)),
                  IF entireTree.obj = "node" THEN ForClient(entireTree.tree)
                  ELSE nodeTree)

\* The "file-tree-update" listener of part_002, called with the node's tree:
\* the cache is made of the info { name, root }.
FileTreeUpdateListener(tree) ==
  LET ran == RunPlugins(plugins, ListenerArgument(Object("node", tree)), tree)
      info == [name |-> ConfigName, root |-> ran.entireTree.tree]
  IN /\ mergedTree' = ran.nodeTree
     /\ fullTreeCache' = [obj |-> info, json |-> JSONstringify(info)]

\* The "rebuild" listener of part_002: node.updateFileTreeFromLocal, whose
\* "file-tree-update" event runs the listener above.
RebuildWithPlugins(tree) ==
  /\ build = "part_002"
  /\ localTree' = tree
  /\ FileTreeUpdateListener(Merge(tree, announced, connected))
  /\ UNCHANGED <<childLink, proof, announced, connected, response>>
  /\ UNCHANGED <<bubbleVars, codecVars, configVars, fileVars, moreVars>>

NotifyInit ==
  /\ plugins \in SeqsUpTo(PluginKinds, MaxPlugins)
  /\ parentLink = [u \in Parents |-> FALSE]
  /\ sentToParent = [u \in Parents |-> <<>>]

\* No plugins and no parents.
NotifyIdle == NotifyInit /\ plugins = <<>>

NotifyNext ==
  \/ \E tree \in LocalTrees : RebuildOfServer(tree)
  \/ \E tree \in LocalTrees : RebuildWithPlugins(tree)
  \/ \E parent \in Parents, isAdded \in BOOLEAN :
       ParentNodeChange(parent, isAdded)

\* The rebuilds of either server, and GET /list.
ListNext ==
  \/ \E tree \in LocalTrees : RebuildOfServer(tree)
  \/ \E tree \in LocalTrees : RebuildWithPlugins(tree)
  \/ GetList

(***************************************************************************)
(* The Auth plugin (plugin/hls.ts 59-196): the middleware that checks a    *)
(* JWT, and the handler that registers a user, over the user storage.      *)
(***************************************************************************)
Accounts == {"a", "b"}
Passwords == {"p", "q"}
Registrants == {"first", "second"}

\* A value of a JSON body that is a string, and one that is none.
Str(s) == [type |-> "string", v |-> s]
NotString == [type |-> "number", v |-> "1"]

\* config.jwtSecret ?? uuidv4(), and the secrets a token may be signed with.
jwtSecret == "s"
Secrets == {jwtSecret, "x"}

\* What a JWT holds for jwt.verify: the secret it was signed with, whether it
\* has expired, and the account of its payload.
Tokens ==
  [secret : Secrets, expired : BOOLEAN, account : {Str("a")}]
    \cup {[secret |-> jwtSecret, expired |-> FALSE, account |-> NotString]}

\* A string is a sequence of spaces, words and tokens.
Sp == [sp |-> TRUE]
W(word) == [word |-> word]
GoodToken == [secret |-> jwtSecret, expired |-> FALSE, account |-> Str("a")]

\* The values of req.cookies.jwt, and those of req.body.jwt.
JwtValues ==
  {Undefined, Some(<<>>), Some(<<W("junk")>>)} \cup {Some(<<t>>) : t \in Tokens}
BodyJwtValues == {Undefined, Null, Some(<<>>), Some(<<GoodToken>>)}

\* The values of req.headers.authorization.
Headers ==
  {Undefined, Some(<<>>), Some(<<W("Bearer")>>)}
    \cup {Some(<<W("Bearer"), Sp, t>>) : t \in Tokens}
    \cup {Some(<<W(w), Sp, GoodToken>>) : w \in {"Basic", "bearer"}}
    \cup {Some(<<W("Bearer"), Sp, Sp, GoodToken>>), Some(<<GoodToken>>)}

AuthRequests ==
  [cookies : [jwt : JwtValues], body : [jwt : BodyJwtValues],
   authorization : Headers]

\* !x of a value that is undefined, null or a string
Falsy(x) == x \in {Undefined, Null} \/ x.v = <<>>

\* a ?? b
Nullish(a, b) == IF a \in {Undefined, Null} THEN b ELSE a

getJwtFromAuthHeaderAnyScheme(req) ==
  IF Falsy(req.authorization) THEN Null
  ELSE LET scheme == Split(req.authorization.v, Sp)
       IN IF Len(scheme) >= 2 THEN Some(scheme[2]) ELSE Undefined

\* getJwtFromAuthHeader(req)
getJwtFromAuthHeader(req) ==
  IF Falsy(req.authorization) THEN Null
  ELSE LET scheme == Split(req.authorization.v, Sp)
       IN IF scheme[1] = <<W("Bearer")>>
          THEN IF Len(scheme) >= 2 THEN Some(scheme[2]) ELSE Undefined
          ELSE Null

\* jwt.verify(token, secret): the payload, or an exception for a string that
\* is no JWT, a signature of another secret, or a token that has expired.
JwtVerify(token, secret) ==
  IF /\ Len(token.v) = 1
     /\ token.v[1] \in Tokens
     /\ token.v[1].secret = secret
     /\ ~token.v[1].expired
  THEN [account |-> token.v[1].account]
  ELSE Threw

\* storage.getUser(account): the user, or null.
getUser(account) ==
  IF \E u \in users : u.account = account
  THEN CHOOSE u \in users : u.account = account
  ELSE Null

\* The middleware bound to MeditreeType.Auth, up to its await of
\* storage.getUser.
AuthMiddleware(req) ==
  /\ authReq = Null
  /\ LET token == Nullish(Nullish(req.cookies.jwt, req.body.jwt),
                          getJwtFromAuthHeader(req))
         answer(message) == [req |-> req, pc |-> "done", account |-> "",
                             status |-> 401, message |-> message,
                             next |-> FALSE]
     IN authReq' =
          IF Falsy(token) THEN answer("Token Missing")
          ELSE LET jwtPayload == JwtVerify(token, jwtSecret)
               IN IF jwtPayload = Threw THEN answer("Auth Error")
                  ELSE IF jwtPayload.account.type # "string"
                  THEN answer("Token Invalid")
                  ELSE [req |-> req, pc |-> "getUser",
                        account |-> jwtPayload.account.v,
                        status |-> 0, message |-> "", next |-> FALSE]
  /\ UNCHANGED <<users, addUserCalls, registerReq>>
  /\ UNCHANGED <<earlyVars, adminVars, clientVars>>

\* The middleware from the answer of storage.getUser on.
AuthGetUser ==
  /\ authReq # Null
  /\ authReq.pc = "getUser"
  /\ authReq' =
       IF getUser(authReq.account) = Null
       THEN [authReq EXCEPT !.pc = "done", !.status = 401,
                            !.message = "Token Invalid"]
       ELSE [authReq EXCEPT !.pc = "done", !.next = TRUE]
  /\ UNCHANGED <<users, addUserCalls, registerReq>>
  /\ UNCHANGED <<earlyVars, adminVars, clientVars>>

\* The bodies of the requests to the register path.
RegisterBodies ==
  [account : {Str(a) : a \in Accounts} \cup {NotString},
   password : {Str(p) : p \in Passwords} \cup {NotString}]

NoRegistration ==
  [pc |-> "idle", account |-> "", password |-> "", status |-> 0,
   message |-> ""]

\* The handler of the register path, up to its await of storage.getUser.
Register(r, body) ==
  /\ registerReq[r].pc = "idle"
  /\ registerReq' =
       [registerReq EXCEPT ![r] =
          IF ~(body.account.type = "string" /\ body.password.type = "string")
          THEN [NoRegistration EXCEPT !.pc = "done", !.status = 400,
                                      !.message = "Credentials Invalid"]
          ELSE [NoRegistration EXCEPT !.pc = "getUser",
                                      !.account = body.account.v,
                                      !.password = body.password.v]]
  /\ UNCHANGED <<users, addUserCalls, authReq>>
  /\ UNCHANGED <<earlyVars, adminVars, clientVars>>

\* The handler from the answer of storage.getUser to its await of
\* storage.addUser: the call of addUser is made before the await.
RegisterGetUser(r) ==
  /\ registerReq[r].pc = "getUser"
  /\ registerReq' =
       [registerReq EXCEPT ![r] =
          IF getUser(registerReq[r].account) # Null
          THEN [@ EXCEPT !.pc = "done", !.status = 400,
                         !.message = "Account Exists"]
          ELSE [@ EXCEPT !.pc = "addUser"]]
  /\ addUserCalls' =
       IF getUser(registerReq[r].account) # Null THEN addUserCalls
       ELSE Append(addUserCalls, [account |-> registerReq[r].account,
                                  password |-> registerReq[r].password])
  /\ UNCHANGED <<users, authReq>>
  /\ UNCHANGED <<earlyVars, adminVars, clientVars>>

\* storage.addUser(user): a storage holds one user for an account, and gives
\* false for a user it does not add.
addUser(user) ==
  IF getUser(user.account) # Null THEN users ELSE users \cup {user}

\* The answer of storage.addUser, and the handler from it on: it answers
\* whatever addUser gave.
RegisterAddUser(r) ==
  /\ registerReq[r].pc = "addUser"
  /\ users' = addUser([account |-> registerReq[r].account,
                       password |-> registerReq[r].password])
  /\ UNCHANGED addUserCalls
  /\ registerReq' = [registerReq EXCEPT ![r] =
                       [@ EXCEPT !.pc = "done", !.status = 200,
                                 !.message = "Account Created"]]
  /\ UNCHANGED authReq
  /\ UNCHANGED <<earlyVars, adminVars, clientVars>>

AuthInit ==
  /\ users = {}
  /\ addUserCalls = <<>>
  /\ authReq = Null
  /\ registerReq = [r \in Registrants |-> NoRegistration]

AuthIdle == AuthInit

AuthNext ==
  \/ \E req \in AuthRequests : AuthMiddleware(req)
  \/ AuthGetUser
  \/ \E r \in Registrants, body \in RegisterBodies : Register(r, body)
  \/ \E r \in Registrants : RegisterGetUser(r)
  \/ \E r \in Registrants : RegisterAddUser(r)

(***************************************************************************)
(* The Admin plugin (plugin/admin/admin.ts) behind the middleware of the   *)
(* admin-auth-token plugin, and HostTree.rebuildFileTree. Strings are      *)
(* sequences of character codes; the root directory of the server holds    *)
(* files at paths, each a sequence of names.                               *)
(***************************************************************************)
MaxAdminRequests == 2

\* config.token of the admin-auth-token plugin
AdminToken == "t"

\* "x", "y", "d", "d/x", "d%2Fx" and "%"
StrX == <<120>>
StrY == <<121>>
StrD == <<100>>
StrDX == <<100, 47, 120>>
StrDXEscaped == <<100, 37, 50, 70, 120>>
StrPercent == <<37>>

\* The requests of /admin that may be under way side by side: a request
\* that comes is the first when none is under way as the first, and the
\* second otherwise.
AdminClients == {"first", "second"}

\* A query parameter given twice: an array, which z.string() refuses.
ArrayValue == [array |-> TRUE]

\* The requests: uploads and deletes with the token, and one of each with
\* another cookie.
AdminRequests ==
  [method : {"PUT"}, cookie : {Some(AdminToken)},
   dir : {Undefined, Some(StrD), Some(StrPercent), ArrayValue},
   name : {Undefined}, file : {Undefined, Some(StrY)}, path : {Undefined}]
    \cup
  [method : {"PUT"}, cookie : {Undefined, Some("w")},
   dir : {Undefined}, name : {Some(StrX)}, file : {Some(StrY)},
   path : {Undefined}]
    \cup
  [method : {"DELETE"}, cookie : {Some(AdminToken)},
   dir : {Undefined}, name : {Undefined}, file : {Undefined},
   path : {Undefined, Some(StrX), Some(StrY), Some(StrDXEscaped),
           Some(StrPercent)}]
    \cup
  [method : {"DELETE"}, cookie : {Some("w")},
   dir : {Undefined}, name : {Undefined}, file : {Undefined},
   path : {Some(StrX)}]

AuthTokenMiddlewareOpen(req) == 0

\* The middleware of the admin-auth-token plugin: 0 for next(), or the
\* status it answers.
AuthTokenMiddleware(req) ==
  IF req.cookie = Some(AdminToken) THEN 0 ELSE 401

\* validateRequest of the route: 0 for next(), or the status it answers.
validateRequest(req) ==
  IF req.method = "PUT"
  THEN IF req.dir = ArrayValue \/ req.name = ArrayValue THEN 400 ELSE 0
  ELSE IF req.path = Undefined \/ req.path = ArrayValue THEN 400 ELSE 0

\* decodeURIComponent(str): every escape is replaced by its character; a "%"
\* that two hexadecimal digits do not follow raises a URIError, and so does
\* a lone escape of %80 or above.
RECURSIVE decodeURIComponent(_)
decodeURIComponent(str) ==
  IF str = <<>> THEN [ok |-> TRUE, out |-> <<>>]
  ELSE IF str[1] # 37
  THEN LET r == decodeURIComponent(Tail(str))
       IN [ok |-> r.ok, out |-> <<str[1]>> \o r.out]
  ELSE IF Len(str) < 3 \/ ~IsHexDigit(str[2]) \/ ~IsHexDigit(str[3])
  THEN URIError
  ELSE LET B == 16 * HexDigitValue(str[2]) + HexDigitValue(str[3])
           r == decodeURIComponent(SubSeq(str, 4, Len(str)))
       IN IF B >= 128 THEN URIError
          ELSE [ok |-> r.ok, out |-> <<B>> \o r.out]

\* splitPath(path): the names between the slashes
splitPath(path) ==
  SelectSeq(Split(path, 47), LAMBDA part : part # <<>>)

\* resolveFileTree(manager, parts) instanceof LocalFileTree: the root, or a
\* directory that holds a file of the tree.
resolvesToLocalFileTree(parts) ==
  /\ hostFileTree # Null
  /\ \/ parts = <<>>
     \/ \E f \in hostFileTree.files :
          Len(f) > Len(parts) /\ SubSeq(f, 1, Len(parts)) = parts

\* resolveFile(manager, path): whether the path leads to a file of the tree
resolvesToLocalFile(path) ==
  hostFileTree # Null /\ splitPath(path) \in hostFileTree.files

\* The options a HostTree is constructed with. HostTreeOptions declares the
\* patterns of the classifier as pattern2FileType; startServer hands the
\* HostTree those of config.fileType as fileTypePattern, and the options it
\* hands have no pattern2FileType. The pattern "**" matches every path, and
\* no pattern is ignored.
HostTreeOptions ==
  { [fileTypePattern |-> <<[pattern |-> "**", type |-> "t"]>>,
     ignorePattern |-> <<>>],
    [pattern2FileType |-> <<[pattern |-> "**", type |-> "t"]>>,
     ignorePattern |-> <<>>] }

\* this.filePathClassifier(filePath) of the HostTree, the classifier its
\* constructor makes from options.pattern2FileType: the type of the pattern
\* "**"; for patterns that are undefined, Object.entries raises a TypeError
\* at every call.
filePathClassifier(filePath) ==
  IF "pattern2FileType" \in DOMAIN hostOptions
  THEN Some(hostOptions.pattern2FileType[1].type)
  ELSE Threw

\* The directories of a path
Ancestors(path) == {SubSeq(path, 1, k) : k \in 1..Len(path)}

\* service.rebuildFileTree() up to the await of statAsync(root) in
\* createFileTreeFrom: the scan that begins.
rebuildFileTree == [pc |-> "statRoot", stack |-> <<>>, tree |-> [files |-> {}]]

FinishRebuildAlways(r, status) ==
  /\ adminReq' = [adminReq EXCEPT ![r].pc = "done", ![r].status = status]
  /\ scans' = Append(scans, rebuildFileTree)

\* The end of a handler: the answer and, after res.sendStatus(200), the call
\* of service.rebuildFileTree(), whose scan begins.
Finish(r, status) ==
  /\ adminReq' = [adminReq EXCEPT ![r].pc = "done", ![r].status = status]
  /\ scans' = IF status = 200 THEN Append(scans, rebuildFileTree) ELSE scans

\* Whether the request of client r is at an await.
AwaitsAt(r, pc_) == IF adminReq[r] = Null THEN FALSE ELSE adminReq[r].pc = pc_

\* The answer of a request whose handler has not awaited anything.
Answered(req, status, ran) ==
  [req |-> req, pc |-> "done", status |-> status, handler |-> ran,
   target |-> <<>>]

\* The handler of PUT /admin/file up to its first await, fs.mkdir, with the
\* tree the HostTree has when the handler runs.
PutHandler(req) ==
  LET dir == decodeURIComponent(Nullish(req.dir, Some(<<>>)).v)
      pathParts == splitPath(dir.out)
      found == \E end \in 0..Len(pathParts) :
                 /\ end <= IF Len(pathParts) = 0 THEN 0
                           ELSE Len(pathParts) - 1
                 /\ resolvesToLocalFileTree(SubSeq(pathParts, 1, end))
      filename == Nullish(req.name, req.file).v
  IN IF req.file = Undefined THEN Answered(req, 500, TRUE)
     ELSE IF ~dir.ok THEN Answered(req, 400, TRUE)
     ELSE IF ~found THEN Answered(req, 400, TRUE)
     ELSE [req |-> req, pc |-> "mkdir", status |-> 0, handler |-> TRUE,
           target |-> Append(pathParts, filename)]

\* The handler of DELETE /admin/file up to its first await, fs.unlink.
DeleteHandler(req) ==
  LET path == decodeURIComponent(req.path.v)
  IN IF ~path.ok THEN Answered(req, 400, TRUE)
     ELSE IF ~resolvesToLocalFile(path.out) THEN Answered(req, 404, TRUE)
     ELSE [req |-> req, pc |-> "unlink", status |-> 0, handler |-> TRUE,
           target |-> splitPath(path.out)]

\* The router of /admin for a request that comes, whatever the other
\* request is at: the middleware bound to AdminPluginType.Auth if there
\* is one, then validateRequest, then for a DELETE the route's handler; for
\* a PUT upload.single("file"), which calls next() at once for a body that
\* is no multipart form (so that the handler runs with no file), and
\* otherwise stores the file while other callbacks run.
AdminRoute(r, req) ==
  /\ IF adminReq[r] = Null THEN TRUE ELSE adminReq[r].pc = "done"
  /\ r = "second" => ~AwaitsAt("first", "done") /\ adminReq["first"] # Null
  /\ served < MaxAdminRequests
  /\ served' = served + 1
  /\ adminReq' =
       [adminReq EXCEPT ![r] =
          IF authBound /\ AuthTokenMiddleware(req) # 0
          THEN Answered(req, AuthTokenMiddleware(req), FALSE)
          ELSE IF validateRequest(req) # 0
          THEN Answered(req, validateRequest(req), FALSE)
          ELSE IF req.method = "DELETE" THEN DeleteHandler(req)
          ELSE IF req.file = Undefined THEN PutHandler(req)
          ELSE [req |-> req, pc |-> "upload", status |-> 0,
                handler |-> FALSE, target |-> <<>>]]
  /\ UNCHANGED <<authBound, hostOptions,
                 diskFiles, diskDirs, tempFiles, scans,
                 hostFileTree, rebuildEvent>>
  /\ UNCHANGED <<earlyVars, authVars, clientVars>>

\* upload.single("file") has stored the file of the body in tempDir and calls
\* next(): the handler of the route runs up to its first await.
AdminUpload(r) ==
  /\ AwaitsAt(r, "upload")
  /\ tempFiles' = tempFiles + 1
  /\ adminReq' = [adminReq EXCEPT ![r] = PutHandler(adminReq[r].req)]
  /\ UNCHANGED <<authBound, hostOptions,
                 diskFiles, diskDirs, served, scans,
                 hostFileTree, rebuildEvent>>
  /\ UNCHANGED <<earlyVars, authVars, clientVars>>

\* fs.mkdir(dirPath, { recursive: true }) and what follows its failure. It
\* fails where a file has the name of a directory of the path, and where the
\* file system refuses.
AdminMkdir(r, ok) ==
  /\ AwaitsAt(r, "mkdir")
  /\ UNCHANGED <<authBound, hostOptions,
                 diskFiles, tempFiles, served, hostFileTree,
                 rebuildEvent>>
  /\ LET dirPath == SubSeq(adminReq[r].target, 1, Len(adminReq[r].target) - 1)
     IN IF ok /\ Ancestors(dirPath) \cap diskFiles = {}
        THEN /\ diskDirs' = diskDirs \cup Ancestors(dirPath)
             /\ adminReq' = [adminReq EXCEPT ![r].pc = "rename"]
             /\ UNCHANGED scans
        ELSE /\ UNCHANGED diskDirs
             /\ Finish(r, 500)
  /\ UNCHANGED <<earlyVars, authVars, clientVars>>

\* fs.rename(file.path, newFilePath) and what follows it. It fails where a
\* directory has the new path, and where the file system refuses.
AdminRename(r, ok) ==
  /\ AwaitsAt(r, "rename")
  /\ UNCHANGED <<authBound, hostOptions,
                 diskDirs, served, hostFileTree, rebuildEvent>>
  /\ IF ok /\ adminReq[r].target \notin diskDirs
     THEN /\ diskFiles' = diskFiles \cup {adminReq[r].target}
          /\ tempFiles' = tempFiles - 1
          /\ Finish(r, 200)
     ELSE /\ UNCHANGED <<diskFiles, tempFiles>>
          /\ Finish(r, 500)
  /\ UNCHANGED <<earlyVars, authVars, clientVars>>

\* fs.unlink(file.localPath) and what follows it. It fails where the disk
\* has no such file, and where the file system refuses.
AdminUnlink(r, ok) ==
  /\ AwaitsAt(r, "unlink")
  /\ UNCHANGED <<authBound, hostOptions,
                 diskDirs, tempFiles, served, hostFileTree,
                 rebuildEvent>>
  /\ IF ok /\ adminReq[r].target \in diskFiles
     THEN /\ diskFiles' = diskFiles \ {adminReq[r].target}
          /\ Finish(r, 200)
     ELSE /\ UNCHANGED diskFiles
          /\ Finish(r, 500)
  /\ UNCHANGED <<earlyVars, authVars, clientVars>>

\* The names a directory of the disk holds.
DiskNames(dir) ==
  {q[Len(q)] : q \in {f \in diskFiles \cup diskDirs :
                        /\ Len(f) = Len(dir) + 1
                        /\ SubSeq(f, 1, Len(dir)) = dir}}

\* walk(tree, curDir) of createFileTreeFrom from the answer of an await to
\* the next await, for the filter of a HostTree that ignores no path:
\* statAsync is called for the next name, and at the end of the names the
\* call returns to the loop of the directory above, the first call to
\* createFileTreeFrom. With ignoreEmptyDir a directory is in the tree when a
\* file below it is.
RECURSIVE hostWalk(_)
hostWalk(stack) ==
  LET top == stack[Len(stack)]
  IN IF top.files # <<>> THEN [pc |-> "stat", stack |-> stack]
     ELSE IF Len(stack) = 1 THEN [pc |-> "done", stack |-> <<>>]
     ELSE hostWalk(Append(SubSeq(stack, 1, Len(stack) - 2),
                          [stack[Len(stack) - 1] EXCEPT !.files = Tail(@)]))

\* Scan i goes on to its next await; or createFileTreeFrom returns its tree
\* to rebuildFileTree, which assigns it to the HostTree and emits "rebuild"
\* with it, and the listener of the server takes it.
RebuildDone(i, stack, tree) ==
  LET w == hostWalk(stack)
  IN /\ scans' = [scans EXCEPT ![i] = [pc |-> w.pc, stack |-> w.stack,
                                       tree |-> tree]]
     /\ hostFileTree' = IF w.pc = "done" THEN tree ELSE hostFileTree
     /\ rebuildEvent' = IF w.pc = "done" THEN tree ELSE rebuildEvent

\* The answer of statAsync(root) to scan i: the root is a directory, and
\* walk(tree, root) awaits readdirAsync.
HostStatRoot(i) ==
  /\ i \in 1..Len(scans)
  /\ scans[i].pc = "statRoot"
  /\ scans' = [scans EXCEPT
                 ![i].pc = "readdir",
                 ![i].stack = <<[curDir |-> <<>>, files |-> <<>>]>>]
  /\ UNCHANGED <<authBound, hostOptions,
                 diskFiles, diskDirs, tempFiles, served, adminReq,
                 hostFileTree, rebuildEvent>>
  /\ UNCHANGED <<earlyVars, authVars, clientVars>>

\* The answer of readdirAsync(curDir) to scan i: the names the directory
\* holds now, in the order the file system lists them.
HostReaddir(i) ==
  /\ i \in 1..Len(scans)
  /\ scans[i].pc = "readdir"
  /\ LET stack == scans[i].stack
         top == stack[Len(stack)]
         rest == SubSeq(stack, 1, Len(stack) - 1)
     IN \E files \in Orders(DiskNames(top.curDir)) :
          RebuildDone(i, Append(rest, [top EXCEPT !.files = files]),
                      scans[i].tree)
  /\ UNCHANGED <<authBound, hostOptions,
                 diskFiles, diskDirs, tempFiles, served, adminReq>>
  /\ UNCHANGED <<earlyVars, authVars, clientVars>>

\* The answer of statAsync(filePath) to scan i, for what the path holds now:
\* a file the classifier gives a type is added to the tree, a directory is
\* walked, and the loop goes on after an error: that of a path that holds
\* nothing any more, and that of the classifier.
HostStat(i) ==
  /\ i \in 1..Len(scans)
  /\ scans[i].pc = "stat"
  /\ LET stack == scans[i].stack
         top == stack[Len(stack)]
         rest == SubSeq(stack, 1, Len(stack) - 1)
         filePath == Append(top.curDir, Head(top.files))
         next == Append(rest, [top EXCEPT !.files = Tail(@)])
     IN IF filePath \in diskFiles
        THEN IF filePathClassifier(filePath) \in {Threw, Null}
             THEN RebuildDone(i, next, scans[i].tree)
             ELSE RebuildDone(i, next,
                              [files |-> scans[i].tree.files
                                           \cup {filePath}])
        ELSE IF filePath \in diskDirs
        THEN /\ scans' = [scans EXCEPT
                            ![i].pc = "readdir",
                            ![i].stack = Append(stack, [curDir |-> filePath,
                                                        files |-> <<>>])]
             /\ UNCHANGED <<hostFileTree, rebuildEvent>>
        ELSE RebuildDone(i, next, scans[i].tree)
  /\ UNCHANGED <<authBound, hostOptions,
                 diskFiles, diskDirs, tempFiles, served, adminReq>>
  /\ UNCHANGED <<earlyVars, authVars, clientVars>>

\* The root directory when the server has started, after the first call of
\* rebuildFileTree, which startServer awaits: the tree of the HostTree and
\* of its "rebuild" event holds the files of the root that the classifier
\* gives a type. That is none of them for a HostTree with the options of
\* startServer, and all of them for one with pattern2FileType.
AdminInit ==
  /\ authBound \in BOOLEAN
  /\ hostOptions \in HostTreeOptions
  /\ diskFiles \in {{}, {<<StrX>>}, {<<StrX>>, <<StrD, StrX>>}}
  /\ diskDirs = UNION {Ancestors(SubSeq(f, 1, Len(f) - 1)) : f \in diskFiles}
  /\ tempFiles = 0
  /\ served = 0
  /\ adminReq = [c \in AdminClients |-> Null]
  /\ scans = <<>>
  /\ hostFileTree =
       [files |-> {f \in diskFiles :
                     filePathClassifier(f) \notin {Threw, Null}}]
  /\ rebuildEvent = hostFileTree

AdminIdle ==
  /\ authBound = TRUE
  /\ hostOptions = [fileTypePattern |-> <<[pattern |-> "**", type |-> "t"]>>,
                    ignorePattern |-> <<>>]
  /\ diskFiles = {}
  /\ diskDirs = {}
  /\ tempFiles = 0
  /\ served = 0
  /\ adminReq = [c \in AdminClients |-> Null]
  /\ scans = <<>>
  /\ hostFileTree = [files |-> {}]
  /\ rebuildEvent = [files |-> {}]

AdminNext ==
  \/ \E r \in AdminClients, req \in AdminRequests : AdminRoute(r, req)
  \/ \E r \in AdminClients : AdminUpload(r)
  \/ \E r \in AdminClients, ok \in BOOLEAN : AdminMkdir(r, ok)
  \/ \E r \in AdminClients, ok \in BOOLEAN : AdminRename(r, ok)
  \/ \E r \in AdminClients, ok \in BOOLEAN : AdminUnlink(r, ok)
  \/ \E i \in 1..MaxAdminRequests : HostStatRoot(i)
  \/ \E i \in 1..MaxAdminRequests : HostReaddir(i)
  \/ \E i \in 1..MaxAdminRequests : HostStat(i)

(***************************************************************************)
(* The web client's model of the file tree (web-react/src/models/          *)
(* FileTree.js): createDelegate builds the nodes of the tree view.         *)
(***************************************************************************)
MaxClientDepth == 2

\* The names of the entries of a directory of the client's tree.
ClientNames == {"a.txt", "sub"}

\* A directory of the tree the server lists: its entries and the main of its
\* "*tag" ("" where it has none).
ClientDir(entries, main) == [file |-> FALSE, entries |-> entries, main |-> main]

RECURSIVE ClientEntries(_)
ClientEntries(depth) ==
  IF depth = 0 THEN {File("video/mp4", 1)}
  ELSE {File("video/mp4", 1)}
         \cup {ClientDir(f, main) :
                 f \in UNION {[S -> ClientEntries(depth - 1)] :
                                S \in SUBSET ClientNames},
                 main \in {""} \cup ClientNames}

ClientTrees == {e \in ClientEntries(MaxClientDepth) : ~e.file /\ e.main = ""}

\* reorder(entries): every entry is an object, a file as well, so the
\* entries are put in the order of localeCompare of their names.
ClientNameOrder == <<"a.txt", "sub">>
reorder(tree) ==
  SelectSeq(ClientNameOrder, LAMBDA n : n \in DOMAIN tree.entries)

\* createNode(curDir, curFileTree) with the counter of the keys: the nodes it
\* makes, in the order it makes them, and the counter after them. A node is
\* told from the others by the names on the way to it.
RECURSIVE createNode(_, _, _)
RECURSIVE createNodeFrom(_, _, _, _)
createNodeFrom(curDir, curFileTree, names, key) ==
  IF names = <<>> THEN [key |-> key, nodes |-> <<>>]
  ELSE LET name == Head(names)
           file == curFileTree.entries[name]
           curKey == key
           isLeaf == \/ file.file
                     \/ file.main # "" /\ file.main \in DOMAIN file.entries
           node == [names |-> Append(curDir.names, name), key |-> curKey,
                    isLeaf |-> isLeaf,
                    tracking |-> Append(curDir.tracking, curKey)]
           inner == IF isLeaf THEN [key |-> key + 1, nodes |-> <<>>]
                    ELSE createNode(node, file, key + 1)
           rest == createNodeFrom(curDir, curFileTree, Tail(names), inner.key)
       IN [key |-> rest.key, nodes |-> <<node>> \o inner.nodes \o rest.nodes]

createNode(curDir, curFileTree, key) ==
  createNodeFrom(curDir, curFileTree, reorder(curFileTree), key)

\* createDelegate({ name, root }): the nodes of the render tree and maxKey.
\* The object of the root evaluates key++ for its key before [key] for its
\* tracking.
createDelegate(root) ==
  LET key0 == 0
      key1 == key0 + 1
      rootRenderTree == [names |-> <<>>, key |-> key0, isLeaf |-> FALSE,
                         tracking |-> <<key1>>]
      made == createNode(rootRenderTree, root, key1)
  IN [nodes |-> <<rootRenderTree>> \o made.nodes, maxKey |-> made.key]

\* The client receives the list of the server and builds its delegate.
CreateDelegate ==
  /\ delegate = Null
  /\ delegate' = createDelegate(clientTree)
  /\ UNCHANGED clientTree
  /\ UNCHANGED <<earlyVars, authVars, adminVars>>

ClientInit ==
  /\ clientTree \in ClientTrees
  /\ delegate = Null

ClientIdle == clientTree = ClientDir(<<>>, "") /\ delegate = Null

ClientNext == CreateDelegate

(***************************************************************************)
(* Specifications: one for each part of the program                        *)
(***************************************************************************)
TreeIdle ==
  TreeInit /\ fileType = ConfigFileType /\ preserveEmptyDir = FALSE

\* The parts added to the four above, at rest.
LateIdle == AuthIdle /\ AdminIdle /\ ClientIdle

MoreIdle == GateIdle /\ CacheIdle /\ ScanIdle /\ NotifyIdle /\ LateIdle

BubbleStart == BubbleInit /\ CodecIdle /\ FileIdle /\ TreeIdle /\ MoreIdle
SpecBubble == BubbleStart /\ [][BubbleNext]_vars

\* A message that has arrived on a connection is read in the end: the read
\* hooks run from the socket's data events, one message per step.
BubbleRead == \E n \in Nodes : \E p \in Nodes \ {n} : BubbleHook(n, p)
\* The steps of the bubbles, with messages that are no bubbles of one kind
\* (a stream message whose id starts like a bubble's).
BubbleFairNext ==
  \/ \E b \in Bubbles, a \in Nodes, to \in SUBSET Nodes : sendBubble(b, a, to)
  \/ \E a \in Nodes, p \in Nodes : SendOther(a, p, "stream", TRUE)
  \/ BubbleRead
SpecBubbleFair ==
  BubbleStart /\ [][BubbleFairNext]_vars /\ WF_vars(BubbleRead)

CodecStart == BubbleIdle /\ CodecIdle /\ FileIdle /\ TreeIdle /\ MoreIdle
SpecCodec == CodecStart /\ [][CodecNext]_vars

TreeStart == BubbleIdle /\ CodecIdle /\ FileIdle /\ TreeInit /\ MoreIdle
SpecTree == TreeStart /\ [][TreeNext]_vars

FileStart == BubbleIdle /\ CodecIdle /\ FileInit /\ TreeIdle /\ MoreIdle
SpecFile == FileStart /\ [][FileNext]_vars

GateStart ==
  /\ BubbleIdle /\ CodecIdle /\ FileInit /\ TreeIdle /\ GateInit
  /\ CacheIdle /\ ScanIdle /\ NotifyIdle /\ LateIdle
SpecGate == GateStart /\ [][GateNext]_vars

CacheStart ==
  /\ BubbleIdle /\ CodecIdle /\ FileIdle /\ TreeIdle /\ GateIdle
  /\ CacheInit /\ ScanIdle /\ NotifyIdle /\ LateIdle
SpecCache == CacheStart /\ [][CacheNext]_vars

ScanStart ==
  /\ BubbleIdle /\ CodecIdle /\ FileIdle /\ TreeIdle /\ GateIdle
  /\ CacheIdle /\ ScanInit /\ NotifyIdle /\ LateIdle
SpecScan == ScanStart /\ [][ScanNext]_vars

NotifyStart ==
  /\ BubbleIdle /\ CodecIdle /\ FileInit /\ TreeIdle /\ GateIdle
  /\ CacheIdle /\ ScanIdle /\ NotifyInit /\ LateIdle
SpecNotify == NotifyStart /\ [][NotifyNext]_vars
SpecList == NotifyStart /\ [][ListNext]_vars

EarlyIdle ==
  /\ BubbleIdle /\ CodecIdle /\ FileIdle /\ TreeIdle /\ GateIdle
  /\ CacheIdle /\ ScanIdle /\ NotifyIdle

AuthStart == EarlyIdle /\ AuthInit /\ AdminIdle /\ ClientIdle
SpecAuth == AuthStart /\ [][AuthNext]_vars

\* findConfig runs to its end: it is one synchronous call.
FindStart ==
  /\ BubbleIdle /\ CodecIdle /\ FileIdle /\ TreeIdle /\ FindInit
  /\ CacheIdle /\ ScanIdle /\ NotifyIdle /\ LateIdle
SpecFind == FindStart /\ [][FindNext]_vars /\ WF_vars(FindNext)

AdminStart == EarlyIdle /\ AuthIdle /\ AdminInit /\ ClientIdle
SpecAdmin == AdminStart /\ [][AdminNext]_vars

ClientStart == EarlyIdle /\ AuthIdle /\ AdminIdle /\ ClientInit
SpecClient == ClientStart /\ [][ClientNext]_vars

(***************************************************************************)
(* Properties of the bubble hook                                           *)
(***************************************************************************)
\* The node names a header lists.
Visited(header) == {header[i] : i \in 1..Len(header)}

\* No message is in transit on any connection.
Quiescent == \A e \in Ends : chan[e] = <<>>

\* The step in which n's hook reads, from its Net to p, a bubble message.
ReadsBubble(n, p) ==
  /\ chan[<<p, n>>] # <<>>
  /\ Head(chan[<<p, n>>]).type = "object"
  /\ Head(chan[<<p, n>>]).id.prefixed
  /\ chan'[<<p, n>>] = Tail(chan[<<p, n>>])

\* The nodes that can be reached from n over the links.
RECURSIVE ReachWithin(_, _)
ReachWithin(S, k) ==
  IF k = 0 THEN S
  ELSE ReachWithin({q \in Nodes : q \in S \/ \E r \in S : q \in Neighbours(r)},
                   k - 1)
Reachable(n) == ReachWithin({n}, NumNodes)

\* C1: a hook that reads a bubble message whose header already contains its
\* node's own name sends nothing on any of the node's connections and does
\* not call the node's handler.
C1_VisitedBubbleIsDiscarded ==
  [][\A n \in Nodes : \A p \in Nodes \ {n} :
       (ReadsBubble(n, p) /\ n \in Visited(Head(chan[<<p, n>>]).header))
       => /\ handled'[n] = handled[n]
          /\ \A q \in Nodes \ {n} : chan'[<<n, q>>] = chan[<<n, q>>]]_vars

\* C1 witness: a hook has read a bubble that had come back to its node.
C1_Witness == \E n \in Nodes, b \in Bubbles : discarded[n][b] > 0

\* C2: in every graph, for one originated bubble, the handler of each node is
\* called at most once for that bubble.
C2_HandledAtMostOnce ==
  \A n \in Nodes, b \in Bubbles : handled[n][b] <= 1

\* C2 witness: in a graph where three nodes are linked pairwise (each is
\* reachable from the origin along two paths), the bubble sent to both peers
\* has been handled by both and nothing is in transit any more.
C2_Witness ==
  \E a \in Nodes, p \in Nodes, q \in Nodes, b \in Bubbles :
    /\ Cardinality({a, p, q}) = 3
    /\ {{a, p}, {a, q}, {p, q}} \subseteq links
    /\ origin[b] = a /\ {p, q} \subseteq targets[b]
    /\ handled[p][b] = 1 /\ handled[q][b] = 1
    /\ Quiescent

\* C3 as claimed: a bubble sent by node a to its peer p comes back to a
\* (p's hook sends it on the connection it arrived on) and stops there: a's
\* handler is never called for it, p's handler is called at most once, and
\* once nothing is in transit p's handler has been called exactly once.
C3_CycleDeliversOnce ==
  \A b \in Bubbles, a \in Nodes, p \in Nodes :
    (origin[b] = a /\ p \in targets[b])
    => /\ handled[a][b] = 0
       /\ handled[p][b] <= 1
       /\ Quiescent => handled[p][b] = 1

\* C4 as claimed: a hook that accepts a bubble (and whose send does not fail)
\* sends it, with its node's name appended, on every other connection of the
\* node and not on the connection it arrived on.
C4_ForwardsOnOtherLinks ==
  [][\A n \in Nodes : \A p \in Nodes \ {n} :
       (/\ ReadsBubble(n, p)
        /\ n \notin Visited(Head(chan[<<p, n>>]).header)
        /\ failed' = failed)
       => LET m == Head(chan[<<p, n>>])
          IN /\ chan'[<<n, p>>] = chan[<<n, p>>]
             /\ \A q \in Neighbours(n) \ {p} :
                  chan'[<<n, q>>] =
                    Append(chan[<<n, q>>],
                           Message(m.id, m.data, Append(m.header, n)))]_vars

\* C5 as claimed: once nothing is in transit, a bubble that its origin sent on
\* all of its connections, with no send failing, has been handled by every
\* other node that can be reached from the origin.
C5_ReachesEveryNode ==
  \A b \in Bubbles :
    (/\ origin[b] # 0
     /\ targets[b] = Neighbours(origin[b])
     /\ b \notin failed
     /\ Quiescent)
    => \A n \in Reachable(origin[b]) \ {origin[b]} : handled[n][b] >= 1

\* C6 as claimed: the handler is called for every bubble a hook accepts, also
\* when sending it on fails.
C6_HandlerRunsDespiteSendFailure ==
  \A n \in Nodes, b \in Bubbles : handled[n][b] = accepted[n][b]

(***************************************************************************)
(* Properties of BufferWriter.strings                                      *)
(***************************************************************************)
\* The strings of a batch, one after the other, as one string.
RECURSIVE Concat(_)
Concat(values) ==
  IF values = <<>> THEN <<>> ELSE Head(values) \o Concat(Tail(values))

\* A reader of UTF-8: a byte sequence that is no encoding decodes to <<-1>>.
RECURSIVE Utf8Decode(_)
Utf8Decode(bytes) ==
  IF bytes = <<>> THEN <<>>
  ELSE IF bytes[1] < 128 THEN <<bytes[1]>> \o Utf8Decode(Tail(bytes))
  ELSE IF bytes[1] >= 192 /\ bytes[1] < 224 /\ Len(bytes) >= 2
          /\ bytes[2] >= 128 /\ bytes[2] < 192
  THEN <<(bytes[1] - 192) * 64 + (bytes[2] - 128)>>
         \o Utf8Decode(Tail(Tail(bytes)))
  ELSE <<-1>>

\* A reader of one length-prefixed string: the four bytes of the length,
\* then that many bytes, decoded.
ReadString(bytes) ==
  IF Len(bytes) < 4 THEN <<-1>>
  ELSE LET n == bytes[1] * 16777216 + bytes[2] * 65536 + bytes[3] * 256
                  + bytes[4]
       IN IF Len(bytes) < 4 + n THEN <<-1>>
          ELSE Utf8Decode(SubSeq(bytes, 5, 4 + n))

\* C7 as claimed: the bytes one call of strings writes are written by no other
\* sequence of strings.
C7_BytesDetermineTheBatch ==
  cursor # 0 => \A other \in Batches :
                  StringsBytes(other) = backend => other = batch

\* C7, amended: the bytes one call of strings writes are one length-prefixed
\* string, the concatenation of the batch: a reader gets back the
\* concatenation (not the strings it was made of), and the cursor is at the
\* end of the bytes written.
C7_BytesDetermineTheConcatenation ==
  cursor # 0 => /\ ReadString(backend) = Concat(batch)
                /\ cursor = Len(backend)

\* C7 witness: a batch of two non-empty strings, one with a character of two
\* bytes, has been written.
C7_Witness ==
  /\ cursor # 0 /\ Len(batch) = 2
  /\ batch[1] # <<>> /\ batch[2] # <<>>
  /\ \E i \in 1..Len(batch[1]) : batch[1][i] >= 128

(***************************************************************************)
(* Properties of the merged tree and of the tree cache                     *)
(***************************************************************************)
\* The files of a directory, each with the path that leads to it, and the
\* paths of the directories under it.
RECURSIVE FilesIn(_)
FilesIn(dir) ==
  UNION {IF dir.entries[n].file
         THEN {[path |-> <<n>>, file |-> dir.entries[n]]}
         ELSE {[path |-> <<n>> \o f.path, file |-> f.file] :
                 f \in FilesIn(dir.entries[n])} :
         n \in DOMAIN dir.entries}
RECURSIVE DirsIn(_)
DirsIn(dir) ==
  UNION {IF dir.entries[n].file THEN {}
         ELSE {<<n>>} \cup {<<n>> \o q : q \in DirsIn(dir.entries[n])} :
         n \in DOMAIN dir.entries}

\* A directory as the mapping from names to entries that it is, whatever the
\* order its entries were added in.
RECURSIVE Mapping(_)
Mapping(e) ==
  IF e.file THEN e
  ELSE [file |-> FALSE,
        entries |-> [n \in DOMAIN e.entries |-> Mapping(e.entries[n])]]

\* The connected children that have announced a directory.
Announcing == {c \in Children : childLink[c] = "up" /\ announced[c] # Null}

\* The requested paths that lie under the entry named c.
PathsUnder(c) == {parts \in Paths : parts[1] = c}

\* C8 as claimed: once the link of a child whose subtree was mounted is
\* removed, the merged tree has no entry of the child's name and every request
\* for a path under that name is answered 404.
C8_RemovedChildLeavesNoEntry ==
  \A c \in Children :
    childLink[c] = "removed"
    => /\ c \notin DOMAIN mergedTree.entries
       /\ \A parts \in PathsUnder(c) :
            GetFileOutcome(resolveFile(mergedTree, parts)) = "404"

\* C8, amended: once the link of a child whose subtree was mounted is
\* removed, the merged tree holds nothing of that child: if the local subtree
\* has no entry of the child's name, the merged tree has none and every
\* request for a path under that name is answered 404; if it has one, the
\* name again stands for the local entry.
C8_RemovedChildLeavesNothingOfItsOwn ==
  \A c \in Children :
    childLink[c] = "removed"
    => IF c \in DOMAIN localTree.entries
       THEN mergedTree.entries[c] = localTree.entries[c]
       ELSE /\ c \notin DOMAIN mergedTree.entries
            /\ \A parts \in PathsUnder(c) :
                 GetFileOutcome(resolveFile(mergedTree, parts)) = "404"

\* C8 witness: the link of a child that had been mounted is removed, the
\* local subtree has no entry of its name, and a request for a path under the
\* name has been answered 404.
C8_Witness ==
  \E c \in Children :
    /\ childLink[c] = "removed"
    /\ c \notin DOMAIN localTree.entries
    /\ response # Null /\ response.kind = "file"
    /\ Len(response.path) = 2 /\ response.path[1] = c
    /\ response.status = "404"

\* C9 as claimed: the merged tree is the local subtree with the announced
\* directory of each connected child as the entry of the child's name, in
\* place of a local entry of that name.
C9_MergedIsLocalPlusAnnounced ==
  Mapping(mergedTree).entries =
    [n \in DOMAIN localTree.entries \cup Announcing |->
       IF n \in Announcing THEN Mapping(announced[n])
       ELSE Mapping(localTree.entries[n])]

\* C9, amended: the names of the merged tree are those of the local subtree
\* and those of the connected children that have announced a directory,
\* less the children whose directory is empty when the node does not
\* preserve empty directories. A local entry whose name is not such a
\* child's is in the merged tree as it is. Under the name of such a child is
\* a directory that holds, at the paths the child announced them at, the
\* announced files that the node's sub-node filter keeps, and no other file:
\* nothing of a local entry of that name is left.
C9_MergedIsLocalPlusFiltered ==
  LET mounts == {c \in Announcing :
                   preserveEmptyDir \/ DOMAIN announced[c].entries # {}}
  IN /\ DOMAIN mergedTree.entries = DOMAIN localTree.entries \cup mounts
     /\ \A n \in DOMAIN localTree.entries \ mounts :
          Mapping(mergedTree.entries[n]) = Mapping(localTree.entries[n])
     /\ \A c \in mounts :
          /\ ~mergedTree.entries[c].file
          /\ FilesIn(mergedTree.entries[c])
               = {f \in FilesIn(announced[c]) : subNodeFilter(f.file)}
          /\ DirsIn(mergedTree.entries[c]) = DirsIn(announced[c])

\* C9 witness: the local subtree has a directory named like a connected
\* child, which has announced, in a directory of its own, a file the filter
\* keeps and one it drops: the merged tree has the local file a.txt, and
\* under the child's name what the child announced, less the dropped file,
\* and nothing of the local directory.
C9_Witness ==
  \E c \in Announcing :
    /\ c \in DOMAIN localTree.entries
    /\ ~localTree.entries[c].file
    /\ "a.txt" \in DOMAIN mergedTree.entries
    /\ DOMAIN announced[c].entries = {"video.mp4", "sub"}
    /\ DOMAIN announced[c].entries["sub"].entries = {"clip.mp4", "doc.pdf"}
    /\ DOMAIN mergedTree.entries[c].entries = {"video.mp4", "sub"}
    /\ DOMAIN mergedTree.entries[c].entries["sub"].entries = {"clip.mp4"}

\* C10: whenever a request may read the cache, its object and its JSON text
\* are those of one tree, the node's merged tree as a whole.
C10_CacheIsOneWholeTree ==
  /\ fullTreeCache.obj = [name |-> ConfigName, files |-> mergedTree]
  /\ fullTreeCache.json = JSONstringify(fullTreeCache.obj)

\* C10 witness: a /list request has read the cache after the local subtree
\* and a child's directory were merged.
C10_Witness ==
  /\ response # Null /\ response.kind = "list"
  /\ response.body = fullTreeCache.json
  /\ localTree # EmptyDir
  /\ \E c \in Children : c \in Mounted(announced)

(***************************************************************************)
(* Properties of the handshake, of the endpoints and of the sub-node       *)
(* filter                                                                  *)
(***************************************************************************)
\* C11: a handshake whose proof fails verification closes the connection,
\* adds no link (the peer's link is not up, no other link changes) and leaves
\* the announced subtrees, the merged tree and the cache as they were.
C11_FailedHandshakeAddsNothing ==
  [][\A c \in Children :
       (/\ proof'[c] = "invalid"
        /\ <<proof[c], childLink[c]>> # <<proof'[c], childLink'[c]>>)
       => /\ childLink'[c] = "rejected"
          /\ \A d \in Children \ {c} : childLink'[d] = childLink[d]
          /\ announced' = announced
          /\ mergedTree' = mergedTree
          /\ fullTreeCache' = fullTreeCache]_vars

\* C11 witness: a peer's handshake has been rejected while another child is
\* mounted in the merged tree.
C11_Witness ==
  \E c \in Children :
    /\ proof[c] = "invalid" /\ childLink[c] = "rejected"
    /\ c \notin DOMAIN mergedTree.entries
    /\ \E d \in Children \ {c} :
         childLink[d] = "up" /\ d \in DOMAIN mergedTree.entries

\* C16: a /file request whose path does not resolve in the merged tree, or
\* resolves to a directory, is answered 404: pipeFile is not called, so no
\* stream is created.
C16_UnresolvedOrDirectoryIs404 ==
  [][(response' # response /\ response'.kind = "file")
       => LET entry == Walk(mergedTree, response'.path)
          IN (IF entry = Null THEN TRUE ELSE ~entry.file)
               => response'.status = "404"]_vars

\* C16 witness: a request for a path that leads to a directory of the merged
\* tree has been answered 404.
C16_Witness ==
  /\ response # Null /\ response.kind = "file"
  /\ response.status = "404"
  /\ Walk(mergedTree, response.path) # Null
  /\ ~Walk(mergedTree, response.path).file

\* The info whose JSON is cached for a tree: { name, files } in server.ts,
\* { name, root } in part_002.
InfoOf(tree) ==
  IF build = "server.ts" THEN [name |-> ConfigName, files |-> tree]
  ELSE [name |-> ConfigName, root |-> tree]

\* A tree as the plugins that have the hook onEntireTreeForClient make it,
\* each in turn.
RECURSIVE ForClients(_, _)
ForClients(ps, tree) ==
  IF ps = <<>> THEN tree
  ELSE ForClients(Tail(ps),
                  IF Head(ps) = "nohook" THEN tree ELSE ForClient(tree))

\* C19 as claimed: the /list endpoint serves the JSON of the node's name and
\* of the tree the most recent tree-updated notification carried (the merged
\* tree), and of the empty tree before any notification.
C19_ListServesLatestTree ==
  [][(response' # response /\ response'.kind = "list")
       => response'.body = JSONstringify(InfoOf(mergedTree))]_vars

\* C19, amended: the /list endpoint serves the JSON of the node's name and
\* of the tree the most recent tree-updated notification carried, as the
\* onEntireTreeForClient hooks of the plugins, each in turn, have made it (in
\* server.ts, which has no plugins, and with no plugin that has the hook,
\* the tree carried itself), and of the empty tree before any notification.
C19_ListServesLatestTreeForClient ==
  [][(response' # response /\ response'.kind = "list")
       => response'.body
            = JSONstringify(InfoOf(IF build = "server.ts" THEN mergedTree
                                   ELSE ForClients(plugins, mergedTree)))]_vars

\* C19 witness: after notifications, with a plugin whose hook returns a new
\* tree, /list has served the text of the tree the hook has made, which is
\* neither the tree carried nor the empty tree.
C19_Witness ==
  /\ build = "part_002"
  /\ \E i \in 1..Len(plugins) : plugins[i] = "returnsNew"
  /\ response # Null /\ response.kind = "list"
  /\ response.body = JSONstringify(InfoOf(ForClient(mergedTree)))
  /\ response.body # JSONstringify(InfoOf(mergedTree))
  /\ response.body # JSONstringify(InfoOf(EmptyDir))

\* The media types config.fileType enables: those it has an entry for, or
\* those it gives to a path pattern.
Enabled(tag) ==
  tag \in DOMAIN fileType \/ \E k \in DOMAIN fileType : fileType[k] = tag

\* C20: the sub-node filter keeps exactly the file entries whose media type
\* config.fileType enables: of every file a child announces, the filter keeps
\* it if and only if its type is enabled.
C20_FilterKeepsEnabledTypes ==
  \A c \in Children :
    announced[c] # Null
    => \A n \in DOMAIN announced[c].entries :
         announced[c].entries[n].file
         => (subNodeFilter(announced[c].entries[n])
               <=> Enabled(announced[c].entries[n].type))

(***************************************************************************)
(* Properties of pipeFile                                                  *)
(***************************************************************************)
\* Whether the request is for a file of the given origin.
RequestFor(origin_) == request # Null /\ request.file.origin = origin_

\* C12 as claimed: the bytes delivered to a client that is still there are
\* exactly the payloads of the stream-data messages received, in order, and
\* nothing else, also after a stream-end or a stream-error.
C12_BodyIsThePayloads ==
  (RequestFor("remote") /\ clientOpen) => res.body = Concat(received)

\* C12, amended: the bytes delivered to a client that is still there are
\* exactly the payloads of the stream-data messages received, in order, and
\* nothing is written after a stream-end or after a stream-error that follows
\* a payload; a stream-error before any payload is answered with status 500
\* and the text of that status as the body.
C12_BodyIsThePayloadsOrStatusText ==
  (RequestFor("remote") /\ clientOpen)
  => IF stream # Null /\ stream.state = "errored" /\ received = <<>>
     THEN res.statusCode = 500 /\ res.body = StatusText500
     ELSE res.body = Concat(received)

\* C12 witness: two payloads were received and the stream has ended; the
\* response holds the first payload, then the second.
C12_Witness ==
  /\ RequestFor("remote") /\ clientOpen
  /\ received = << <<8, 9>>, <<7>> >>
  /\ stream # Null /\ stream.state = "ended"
  /\ res.ended /\ res.body = <<8, 9, 7>>

\* C13: a /file request for a resolvable file is answered 200 when it carries
\* no Range header and 206 when it carries one.
C13_StatusFollowsRangeHeader ==
  (request # Null /\ res.statusCode \in {200, 206})
  => res.statusCode = IF request.range = <<>> THEN 200 ELSE 206

\* Whether the request asks for a range that begins after it ends, or at or
\* beyond the end of the file.
BadRange ==
  \/ /\ request.spec.kind = "closed"
     /\ request.spec.a > request.spec.b \/ request.spec.a >= request.file.size
  \/ request.spec.kind = "from" /\ request.spec.a >= request.file.size

\* C14: a request whose range begins after it ends, or at or beyond the end
\* of the file, is answered with a request error: pipeFile's promise is not
\* rejected, no stream is opened, and the response sent has a status 4xx and
\* no content length that is zero, negative or larger than its body.
C14_BadRangeIsRequestError ==
  (request # Null /\ BadRange)
  => /\ pc # "rejected"
     /\ stream = Null
     /\ res.headersSent
        => /\ res.statusCode \in 400..499
           /\ res.contentLength.v > 0
           /\ res.ended => Len(res.body) = res.contentLength.v

\* Whether the request asks for the whole of a local file, for a range
\* [a, b] with 0 <= a <= b < size, or for a range that is open at its end.
GoodLocalRange ==
  /\ RequestFor("local")
  /\ \/ request.spec.kind = "none"
     \/ /\ request.spec.kind = "closed"
        /\ request.spec.a <= request.spec.b
        /\ request.spec.b < request.file.size
     \/ request.spec.kind = "from" /\ request.spec.a < request.file.size

\* The first and the last byte such a request asks for.
FirstAsked == IF request.spec.kind = "none" THEN 0 ELSE request.spec.a
LastAsked ==
  IF request.spec.kind = "closed" THEN request.spec.b
  ELSE request.file.size - 1

\* C15: a read of a local file of size S with no range is declared (content
\* length) and delivered as S bytes, a read of the range [a, b] as b-a+1
\* bytes, the bytes a..b of the file, and a read of the range a- as S-a bytes.
C15_LocalReadIsTheSlice ==
  GoodLocalRange
  => /\ res.statusCode \in {200, 206}
        => res.contentLength = Some(LastAsked - FirstAsked + 1)
     /\ (stream # Null /\ stream.state = "ended" /\ res.ended)
        => /\ Len(res.body) = LastAsked - FirstAsked + 1
           /\ \A i \in 1..Len(res.body) :
                res.body[i] = Content(request.file.size)[FirstAsked + i]

\* C15 witness: the range 1-2 of a local file of three bytes has been
\* delivered: two bytes, the second and the third of the file.
C15_Witness ==
  /\ GoodLocalRange /\ request.spec.kind = "closed"
  /\ request.spec.a = 1 /\ request.spec.b = 2 /\ request.file.size = 3
  /\ stream # Null /\ stream.state = "ended" /\ res.ended
  /\ res.body = <<2, 3>>

\* C17: a request for a remote file whose owner's link is down when the
\* stream is to be opened, having dropped after the file was resolved, is
\* answered 404, and not 500.
C17_LinkDownIs404 ==
  (RequestFor("remote") /\ ~linkUp /\ stream = Null)
  => /\ res.statusCode # 500
     /\ pc = "done" => res.statusCode = 404 /\ res.ended

\* C17 witness: the link dropped while pipeFile awaited the stream, and the
\* request has been answered 404.
C17_Witness ==
  /\ RequestFor("remote") /\ ~linkUp /\ stream = Null
  /\ pc = "done" /\ res.statusCode = 404 /\ res.ended

\* C18: once the HTTP client has closed its connection, the stream of its
\* request is cancelled: it is neither left open nor run to its end.
C18_ClientCloseCancelsStream ==
  (~clientOpen /\ stream # Null) => stream.state \notin {"flowing", "ended"}

(***************************************************************************)
(* Properties of bubbles in transit                                        *)
(***************************************************************************)
\* The bubble messages in transit from a to p.
BubblesInTransit(a, p) ==
  {i \in 1..Len(chan[<<a, p>>]) : IsBubble(chan[<<a, p>>][i])}

NoBubbleInTransit == \A e \in Ends : BubblesInTransit(e[1], e[2]) = {}

\* C26: in every graph (with cycles too) the visited header of a bubble in
\* transit is never longer than the number of nodes, and once a bubble has
\* been originated, eventually no copy of it is in transit.
C26_BubbleStopsTravelling ==
  /\ [](\A e \in Ends : \A i \in BubblesInTransit(e[1], e[2]) :
          Len(chan[e][i].header) <= Cardinality(Nodes))
  /\ ((\E b \in Bubbles : origin[b] # 0) ~> NoBubbleInTransit)

\* C26 witness: in a graph where three nodes are linked pairwise, the bubble
\* was sent to both peers, each forwarded copy came back and was discarded,
\* and nothing is in transit any more.
C26_Witness ==
  \E a \in Nodes, p \in Nodes, q \in Nodes, b \in Bubbles :
    /\ Cardinality({a, p, q}) = 3
    /\ {{a, p}, {a, q}, {p, q}} \subseteq links
    /\ origin[b] = a /\ targets[b] = {p, q}
    /\ discarded[a][b] = 2
    /\ NoBubbleInTransit

\* C27: every bubble message in transit carries the id and the payload it was
\* originated with and a header that starts with the originating node, names
\* no node twice, ends with the node that wrote this copy to the connection,
\* and in which every node is linked to the one before it (it forwarded the
\* copy it had read from that node).
C27_HeaderIsThePathTravelled ==
  \A e \in Ends : \A i \in BubblesInTransit(e[1], e[2]) :
    LET m == chan[e][i]
        b == removePrefix(m.id)
        h == m.header
    IN /\ b \in Bubbles /\ origin[b] # 0
       /\ m.id = BubbleId(b) /\ m.data = DataOf(b)
       /\ Len(h) >= 1
       /\ h[1] = origin[b]
       /\ h[Len(h)] = e[1]
       /\ \A j \in 1..Len(h), k \in 1..Len(h) : h[j] = h[k] => j = k
       /\ \A j \in 1..(Len(h) - 1) : {h[j], h[j + 1]} \in links

\* C27 witness: a forwarded copy, with two names in its header, is in transit.
C27_Witness ==
  \E e \in Ends : \E i \in BubblesInTransit(e[1], e[2]) :
    Len(chan[e][i].header) = 2

(***************************************************************************)
(* Properties of the configuration and of the passcode middleware          *)
(***************************************************************************)
\* A passcode is configured and a request has passed the middleware.
GatedRequest == config # Null /\ Truthy(config.passcode) /\ httpReq # Null

\* C21 as claimed: when a passcode is configured, a request that supplies
\* the configured passcode neither in its query string nor in its body is
\* answered 401 or 400 by the middleware: no /list or /file handler runs and
\* nothing of the tree or of a file is returned.
C21_WrongPasscodeIsRefused ==
  (GatedRequest /\ httpReq.query # config.passcode
                /\ httpReq.body # config.passcode)
  => (response.kind = "passcode" /\ response.status \in {"401", "400"})

\* C22 as claimed: when a passcode is configured, a request with the
\* configured passcode in its body and no passcode in its query string is
\* admitted to the route's handler.
C22_BodyPasscodeIsAdmitted ==
  (GatedRequest /\ httpReq.query = Undefined
                /\ httpReq.body = config.passcode)
  => response.kind \in {"list", "file"}

\* A configuration object has a non-empty name and both keys.
HasNameAndKeypair(cfg) ==
  Truthy(cfg.name) /\ Truthy(cfg.publicKey) /\ Truthy(cfg.privateKey)

\* C23 as claimed: the configuration findConfig returns, and the one it has
\* then written to the configuration file, has a non-empty name and a
\* keypair.
C23_ConfigHasNameAndKeypair ==
  config # Null => (HasNameAndKeypair(config) /\ HasNameAndKeypair(disk))

(***************************************************************************)
(* Properties of the cache plugin                                          *)
(***************************************************************************)
\* C24 as claimed: a cached copy is not served once it is older than maxAge:
\* whenever a caller has been given a read stream on the cached copy, the
\* copy was written at most maxAge before.
C24_StaleCopyIsNotServed ==
  \A r \in Callers : call[r].fromCache => call[r].age <= maxAge

\* The bytes of the complete remote file that the options ask for: those
\* from options.start to options.end, or to the end of the file.
RequestedRange(options) ==
  SubSeq(Content(remoteSize), options.start + 1,
         IF options.end + 1 < remoteSize THEN options.end + 1
         ELSE remoteSize)

\* C30 as claimed: whenever a caller has been served from the cached copy,
\* the bytes it was given, once its read stream has ended, are the requested
\* range of the complete remote file, whatever the other caller does
\* meanwhile and after a fetch whose source stream emitted an error.
C30_CachedBytesAreTheRange ==
  \A r \in Callers :
    (call[r].fromCache /\ call[r].pc = "done")
      => call[r].body = RequestedRange(call[r].options)

(***************************************************************************)
(* Properties of the scan                                                  *)
(***************************************************************************)
\* The paths of everything in a tree.
RECURSIVE TreePaths(_)
TreePaths(e) ==
  IF e.file THEN {}
  ELSE UNION {{<<n>>} \cup {<<n>> \o q : q \in TreePaths(e.entries[n])} :
              n \in DOMAIN e.entries}

\* The path and the paths of all directories above it, under the root, pass
\* the ignore filter.
PassesIgnore(parts) ==
  \A k \in 1..Len(parts) :
    \A i \in 1..Len(scanOptions.ignorePattern) :
      LowerCase(ExtOf[parts[k]]) # LowerCase(scanOptions.ignorePattern[i])

\* The type the first matching pattern of the configuration gives a path.
TypeOf(parts) ==
  LET matching == {i \in 1..Len(scanOptions.pattern2FileType) :
                     LowerCase(scanOptions.pattern2FileType[i].pattern)
                       = LowerCase(ExtOf[parts[Len(parts)]])}
  IN IF matching = {} THEN Null
     ELSE Some(scanOptions.pattern2FileType[
                 CHOOSE i \in matching : \A j \in matching : i <= j].type)

IsFileIn(tree, parts) == Walk(tree, parts) # Null /\ Walk(tree, parts).file

\* C25: every file of the tree a scan gives is at a path that passes the
\* ignore filter, like every directory above it under the root, carries the
\* type the classifier gives the path, and with ignoreEmptyDir every
\* directory of the tree has a file somewhere below it; and for a filesystem
\* that did not change while the scan read it, the tree contains a file
\* exactly at the paths where the filesystem has a regular file that the
\* classifier gives a type and whose path passes the ignore filter, and the
\* file carries the size of the file on disk.
C25_SnapshotIsTheIncludedFiles ==
  (scanned # Null /\ scanned # Threw)
  => /\ \A parts \in TreePaths(scanned) :
          LET inTree == Walk(scanned, parts)
          IN /\ inTree.file
                => /\ PassesIgnore(parts)
                   /\ TypeOf(parts) # Null
                   /\ inTree.type = TypeOf(parts).v
             /\ (scanOptions.ignoreEmptyDir /\ ~inTree.file)
                => \E below \in TreePaths(inTree) : IsFileIn(inTree, below)
     /\ walking.changes = 0
        => \A parts \in FsPaths(fsRoot) \cup TreePaths(scanned) :
             LET onDisk == FsWalk(fsRoot, parts)
             IN /\ IsFileIn(scanned, parts)
                   <=> /\ onDisk # Null /\ onDisk.kind = "file"
                       /\ PassesIgnore(parts)
                       /\ TypeOf(parts) # Null
                /\ IsFileIn(scanned, parts)
                   => Walk(scanned, parts).size = onDisk.size

\* C25 witness: with ignoreEmptyDir, the scan has left out a directory that
\* passes the ignore filter and holds only files it does not include, kept a
\* directory for the file in it, and left out an ignored directory that
\* holds a file the classifier gives a type.
C25_Witness ==
  /\ scanned # Null /\ scanned # Threw
  /\ walking.changes = 0
  /\ scanOptions.ignoreEmptyDir
  /\ \E parts \in FsPaths(fsRoot) :
       /\ FsWalk(fsRoot, parts).kind = "dir"
       /\ FsPaths(FsWalk(fsRoot, parts)) # {}
       /\ PassesIgnore(parts)
       /\ Walk(scanned, parts) = Null
  /\ \E parts \in TreePaths(scanned) :
       Len(parts) = 2 /\ IsFileIn(scanned, parts)
  /\ \E parts \in FsPaths(fsRoot) :
       /\ ~PassesIgnore(parts)
       /\ TypeOf(parts) # Null
       /\ Len(parts) = 2
       /\ FsWalk(fsRoot, parts).kind = "file"

(***************************************************************************)
(* Properties of the listeners of the node's events                        *)
(***************************************************************************)
\* C28: in the step that adds a link to a parent, the server sends that
\* parent one file-tree-rebuild message, which carries the node's tree as
\* the last tree-updated notification published it, and sends the other
\* parents nothing; in a step that removes a parent link nothing is sent.
C28_NewParentIsSentTheTree ==
  [][\A u \in Parents :
       /\ (~parentLink[u] /\ parentLink'[u])
          => /\ sentToParent'[u] =
                  Append(sentToParent[u],
                         [id |-> "file-tree-rebuild", data |-> mergedTree])
             /\ \A v \in Parents \ {u} : sentToParent'[v] = sentToParent[v]
       /\ (parentLink[u] /\ ~parentLink'[u])
          => sentToParent' = sentToParent]_vars

\* C28 witness: a parent linked after a scan was sent the scanned tree, a
\* link was removed, and a parent was sent something else than the other.
C28_Witness ==
  \E u \in Parents, v \in Parents :
    /\ u # v
    /\ sentToParent[u] # <<>> /\ sentToParent[v] # <<>>
    /\ sentToParent[u][1].data # EmptyDir
    /\ sentToParent[u][1].data # sentToParent[v][1].data
    /\ ~parentLink[v]

\* C29: the listener of the tree-updated notification, with the hooks of
\* the plugins that transform the tree for clients, leaves the node's own
\* tree as the merge made it: every path resolves on the node after the
\* listener has run as it does in the merge of the local subtree.
C29_ListenerLeavesTheNodeTree ==
  [][fullTreeCache' # fullTreeCache
     => LET merged == Merge(localTree', announced', connected')
        IN \A parts \in TreePaths(merged) \cup TreePaths(mergedTree') :
             resolveFile(mergedTree', parts) = resolveFile(merged, parts)]_vars

\* C29 witness: a plugin has changed in place the tree it was given, what
\* clients are listed differs from the node's tree, and a file hidden from
\* clients still resolves on the node.
C29_Witness ==
  /\ build = "part_002"
  /\ \E i \in 1..Len(plugins) : plugins[i] = "inPlace"
  /\ fullTreeCache.obj.root # mergedTree
  /\ \E parts \in TreePaths(mergedTree) :
       /\ resolveFile(mergedTree, parts) # Null
       /\ resolveFile(fullTreeCache.obj.root, parts) = Null

\* The options ask for the whole remote file.
WholeFile(options) ==
  options = Undefined \/ (options.start = 0 /\ options.end = remoteSize - 1)

\* C31: a step creates or changes the cache file only on behalf of a call
\* for a remote file no larger than maxSize whose options ask for the whole
\* file; a call for a local file, for a file larger than maxSize, or for a
\* proper part of a file that is not cached returns undefined, leaves the
\* cache file as it is, and does nothing afterwards.
C31_OnlyWholeSmallRemoteFilesAreCached ==
  [][/\ cacheFile' # cacheFile
        => \E r \in Callers :
             /\ call'[r] # call[r]
             /\ call[r].pc \in {"filling", "done", "failed"}
             /\ ~call[r].fromCache
             /\ ~call[r].local
             /\ remoteSize <= maxSize
             /\ WholeFile(call[r].options)
     /\ \A r \in Callers :
          /\ (/\ call[r].pc = "idle" /\ call'[r].pc # "idle"
              /\ \/ call'[r].local
                 \/ remoteSize > maxSize
                 \/ cacheFile = Null /\ ~WholeFile(call'[r].options))
             => (call'[r].pc = "bypass" /\ cacheFile' = cacheFile)
          /\ call[r].pc = "bypass" => call'[r] = call[r]]_vars

\* C31 witness: one call for a part of the file, not cached then, was given
\* undefined, and another call, for the whole file, has filled the cache.
C31_Witness ==
  \E r \in Callers, q \in Callers :
    /\ call[r].pc = "bypass" /\ ~call[r].local /\ remoteSize <= maxSize
    /\ ~WholeFile(call[r].options)
    /\ call[q].pc = "done" /\ ~call[q].fromCache
    /\ cacheFile # Null /\ cacheFile.bytes = Content(remoteSize)

\* The JWTs a request carries: in its cookie, in its body, and after
\* "Bearer " in its authorization header.
CarriedJwts(req) ==
  {t \in Tokens :
     \/ req.cookies.jwt = Some(<<t>>)
     \/ req.body.jwt = Some(<<t>>)
     \/ req.authorization = Some(<<W("Bearer"), Sp, t>>)}

\* The token verifies under the secret of the server, and the storage holds
\* a user of its account.
ValidJwt(t) ==
  /\ t.secret = jwtSecret /\ ~t.expired
  /\ t.account.type = "string"
  /\ \E u \in users : u.account = t.account.v

\* C32: the auth middleware calls next only for a request that carries, in
\* its cookie, its body or its Bearer authorization header, a JWT that
\* verifies under the server's secret and whose account the user storage
\* holds; it answers every other request 401 and does not call next for it.
\* While it waits for the storage it has neither answered nor called next.
C32_NextOnlyForAValidJwt ==
  authReq # Null =>
    /\ authReq.next => \E t \in CarriedJwts(authReq.req) : ValidJwt(t)
    /\ authReq.next => authReq.status = 0 /\ authReq.pc = "done"
    /\ (authReq.pc = "done" /\ ~authReq.next) => authReq.status = 401
    /\ authReq.pc = "getUser" => authReq.status = 0 /\ ~authReq.next
    /\ (authReq.pc = "done"
        /\ ~\E t \in CarriedJwts(authReq.req) : ValidJwt(t))
         => authReq.status = 401 /\ ~authReq.next

\* C32 witness: next was called for a request whose only JWT is in its
\* authorization header, for an account that one registration has added.
C32_Witness ==
  /\ authReq # Null
  /\ authReq.next
  /\ authReq.req.cookies.jwt = Undefined
  /\ authReq.req.body.jwt = Null
  /\ Len(addUserCalls) = 1

\* C33: of the registrations of one account at most one is answered
\* "Account Created", and addUser is called at most once for an account.
C33_OneRegistrationPerAccount ==
  /\ \A r \in Registrants, q \in Registrants :
       (/\ r # q
        /\ registerReq[r].status = 200 /\ registerReq[q].status = 200)
         => registerReq[r].account # registerReq[q].account
  /\ \A i \in 1..Len(addUserCalls), j \in 1..Len(addUserCalls) :
       i # j => addUserCalls[i].account # addUserCalls[j].account

\* The clients whose request a step has taken or whose handler it has
\* carried on.
Touched == {r \in AdminClients : adminReq'[r] # adminReq[r]}

\* C34: with a middleware bound to AdminPluginType.Auth, a request to
\* /admin whose auth cookie is not the configured token is answered 401 as
\* it comes and nothing is done for it later: the handler of its route does
\* not run, and the step that takes it creates, moves or removes no file or
\* directory of the disk and no file of tempDir, and begins no rebuild.
C34_UnauthorizedAdminRequestIsRefused ==
  [][\A r \in AdminClients :
       (/\ authBound
        /\ adminReq'[r] # Null
        /\ adminReq'[r].req.cookie # Some(AdminToken))
       => /\ adminReq'[r] = Answered(adminReq'[r].req, 401, FALSE)
          /\ r \in Touched
             => /\ diskFiles' = diskFiles
                /\ diskDirs' = diskDirs
                /\ tempFiles' = tempFiles
                /\ scans' = scans]_vars

\* C34 witness: an upload with a wrong cookie and a file in its body was
\* refused while the upload of the other client, with the token, was moving
\* its file, and that upload then changed the disk and began a rebuild.
C34_Witness ==
  /\ authBound
  /\ adminReq["first"] # Null /\ adminReq["second"] # Null
  /\ adminReq["second"].req.method = "PUT"
  /\ adminReq["second"].req.cookie = Some("w")
  /\ adminReq["second"].req.file # Undefined
  /\ adminReq["second"].status = 401
  /\ adminReq["first"].status = 200
  /\ Len(scans) = 1 /\ scans[1].pc = "statRoot"
  /\ served = 2

\* C35: a step begins a rebuild of the file tree exactly when it answers an
\* upload or a delete with 200; a step that answers 404 removes no file.
C35_RebuildExactlyOnSuccess ==
  [][/\ (Len(scans') > Len(scans))
          <=> (\E r \in Touched : adminReq'[r].status = 200)
     /\ (\E r \in Touched : adminReq'[r].status = 404)
          => (diskFiles' = diskFiles /\ diskDirs' = diskDirs)]_vars

\* C35 witness: of two deletes of one file that ran side by side, one
\* succeeded and began a rebuild, and the other, whose unlink failed, was
\* answered 500 and began none.
C35_Witness ==
  /\ adminReq["first"] # Null /\ adminReq["second"] # Null
  /\ adminReq["first"].req.method = "DELETE"
  /\ adminReq["first"].status = 200
  /\ adminReq["second"].req.method = "DELETE"
  /\ adminReq["second"].status = 500
  /\ adminReq["second"].target \notin diskFiles
  /\ Len(scans) = 1

\* C36: once every call of rebuildFileTree has completed, the tree of the
\* HostTree and the tree of the last "rebuild" event are what the scan that
\* began last gave.
C36_LastStartedScanWins ==
  (Len(scans) >= 2 /\ \A i \in 1..Len(scans) : scans[i].pc = "done")
    => /\ hostFileTree = scans[Len(scans)].tree
       /\ rebuildEvent = scans[Len(scans)].tree

\* No directory from rootDir up to the root holds a configuration file.
NoConfigFileAbove ==
  disk = Null \/ \A k \in 0..Len(rootDir) : SubSeq(rootDir, 1, k) # configDir

\* findConfig has written a default configuration in rootDir and has raised
\* its error; it has returned no configuration.
DefaultWrittenAndRaised ==
  /\ findConfigThrew
  /\ config = Null
  /\ created # Null
  /\ created.dir = rootDir
  /\ HasNameAndKeypair(created.content)

\* C37: with no configuration file in rootDir or in a directory above it,
\* findConfig comes to its end: the search stops at the root, a default
\* configuration is written in rootDir, and "Configuration not found" is
\* raised in place of a configuration.
C37_NoConfigFileEndsInDefaultAndError ==
  (NoConfigFileAbove /\ created = Null) ~> DefaultWrittenAndRaised

\* C37 witness: findConfig has raised for a rootDir two directories below the
\* root, while a configuration file lies in a directory that is not above
\* rootDir and is as it was.
C37_Witness ==
  /\ Len(rootDir) = MaxDirDepth
  /\ disk # Null
  /\ NoConfigFileAbove
  /\ search.lastDir = Some(<<>>)
  /\ DefaultWrittenAndRaised

\* The node of the delegate that the names lead to.
NodeAt(names) ==
  CHOOSE i \in 1..Len(delegate.nodes) : delegate.nodes[i].names = names

\* C38: in the delegate of createDelegate no two nodes have one key, and the
\* tracking of a node lists the keys of the nodes from the root down to the
\* node, its own key last.
C38_KeysDifferAndTrackingIsThePath ==
  delegate # Null =>
    \A i \in 1..Len(delegate.nodes) :
      LET node == delegate.nodes[i]
      IN /\ \A j \in 1..Len(delegate.nodes) :
              j # i => delegate.nodes[j].key # node.key
         /\ node.tracking =
              [k \in 1..(Len(node.names) + 1) |->
                 delegate.nodes[NodeAt(SubSeq(node.names, 1, k - 1))].key]

====
